---- MODULE Spec2Model ----
(***************************************************************************)
(* Monte Carlo Tree Search engine of langgraph_mcts (mcts/core.py).        *)
(*                                                                         *)
(* The tree is an arena: `nodes` is a sequence of Node records, a node is  *)
(* named by its index, parent = 0 stands for Python's None.  Decision      *)
(* states are the MockState objects of the unit tests plus further state   *)
(* graphs written against the same BaseState contract.  Rewards are the    *)
(* integers the states evaluate to; the scores are the floats of Python,   *)
(* IEEE 754 doubles [sign, exponent, mantissa], with their rounding.       *)
(***************************************************************************)
EXTENDS Integers, Sequences, FiniteSets, TLC

VARIABLES
    nodes,              \* the search tree: Seq(Node)
    config,             \* the MCTSConfig of the MCTS instance
    initial_state,      \* the state object handed to search / the root Node
    pc,                 \* position inside search, or "ops" for direct calls
    i,                  \* loop variable of `for i in range(num_simulations)`
    promising_node,     \* result of _select_promising_node in this iteration
    expanded_node,      \* expanded_node_for_simulation
    current_state,      \* current_state of the running rollout
    depth,              \* number of rollout loop passes that applied a transition
    simulation_reward,  \* result of _simulate_random_playout
    result,             \* value returned by search
    transitions,        \* number of get_next_state calls made so far
    rollouts,           \* number of _simulate_random_playout calls started
    call,               \* last direct method call: [op, node, reward, ret]
    transition_rewards, \* the reward get_next_state returns with a state
    twin,               \* an earlier search call, kept for comparison
    graph,              \* mcts_node: the graph state and what was returned
    started             \* per node: the completed iterations simulated from it

(* What lies outside one search call.                                      *)
context == <<transition_rewards, twin, graph, started>>

vars == <<nodes, config, initial_state, pc, i, promising_node, expanded_node,
          current_state, depth, simulation_reward, result, transitions,
          rollouts, call, context>>

----------------------------------------------------------------------------
(* Bounds of the model.                                                    *)

MaxSimulations == 6      \* largest num_simulations of the general scenarios
MaxCalls == 5            \* longest sequence of direct method calls
MaxReward == 2           \* direct _backpropagate calls use rewards 0..MaxReward
MaxDepthAttr == 2        \* a max_simulation_depth attribute set on the config
MaxTwinSimulations == 4  \* largest num_simulations of the repeated searches
MaxTransitionReward == 1 \* get_next_state returns rewards 0..MaxTransitionReward
MaxAgentSimulations == 3 \* largest num_simulations handed to mcts_node
MaxVisitCount == 4       \* visit_count values the Node properties are read at
MaxTotalReward == 3      \* total_reward values the Node properties are read at

(* Program constants.                                                      *)

TestNumSimulations == 50     \* MCTSConfig(num_simulations=50, ...) of the tests
DefaultNumSimulations == 1000
DefaultUctC == 1414          \* uct_C = 1.414, in thousandths
DefaultExplorationConstant == 1414
TestUctC == 1000             \* uct_C = 1.0 / exploration_constant = 1.0
AgentUctC == 1410            \* uct_C = 1.41 / exploration_constant = 1.41
DefaultMaxSimulationDepth == 100
Base == 2048                 \* a limb of a mantissa holds eleven bits

None == "None"               \* Python's None where an action is expected
NoNode == 0                  \* Python's None where a Node is expected
Root == 1                    \* root_node: the first Node a tree holds
Absent == -1                 \* an attribute the config object does not have
NoBits == <<0, 0, 0, 0, 0>>
PosInf == [sign |-> 1, exponent |-> 1024, mantissa |-> NoBits]   \* float('inf')
NegInf == [sign |-> -1, exponent |-> 1024, mantissa |-> NoBits]  \* -float('inf')
Zero == [sign |-> 1, exponent |-> -1023, mantissa |-> NoBits]    \* 0.0

----------------------------------------------------------------------------
(* The decision states (BaseState implementations).                        *)

(* MockState objects: id |-> [value, terminal, available_actions,          *)
(* children_map].  root/A/B/A1/B1, terminal and s0_start/s1_inter/s2_term  *)
(* are the objects of the unit tests.                                      *)
MockStates ==
    [ root     |-> [value |-> 0,  terminal |-> FALSE,
                    available_actions |-> <<"go_A", "go_B">>,
                    children_map |-> ("go_A" :> "A" @@ "go_B" :> "B")],
      A        |-> [value |-> 0,  terminal |-> FALSE,
                    available_actions |-> <<"done_A">>,
                    children_map |-> ("done_A" :> "A1")],
      B        |-> [value |-> 0,  terminal |-> FALSE,
                    available_actions |-> <<"done_B">>,
                    children_map |-> ("done_B" :> "B1")],
      A1       |-> [value |-> 10, terminal |-> TRUE,
                    available_actions |-> <<>>, children_map |-> <<>>],
      B1       |-> [value |-> 5,  terminal |-> TRUE,
                    available_actions |-> <<>>, children_map |-> <<>>],
      terminal |-> [value |-> 1,  terminal |-> TRUE,
                    available_actions |-> <<>>, children_map |-> <<>>],
      s0_start |-> [value |-> 0,  terminal |-> FALSE,
                    available_actions |-> <<"to_s1">>,
                    children_map |-> ("to_s1" :> "s1_inter")],
      s1_inter |-> [value |-> 0,  terminal |-> FALSE,
                    available_actions |-> <<"to_s2">>,
                    children_map |-> ("to_s2" :> "s2_term")],
      s2_term  |-> [value |-> 20, terminal |-> TRUE,
                    available_actions |-> <<>>, children_map |-> <<>>],
      \* the two-branch scenario with the terminal states reached directly
      direct   |-> [value |-> 0,  terminal |-> FALSE,
                    available_actions |-> <<"go_A", "go_B">>,
                    children_map |-> ("go_A" :> "A1" @@ "go_B" :> "B1")],
      \* two equally good moves
      sym      |-> [value |-> 0,  terminal |-> FALSE,
                    available_actions |-> <<"l", "r">>,
                    children_map |-> ("l" :> "win" @@ "r" :> "win")],
      win      |-> [value |-> 1,  terminal |-> TRUE,
                    available_actions |-> <<>>, children_map |-> <<>>],
      lose     |-> [value |-> 0,  terminal |-> TRUE,
                    available_actions |-> <<>>, children_map |-> <<>>],
      \* the second move is the better one; rollouts below x are random
      game     |-> [value |-> 0,  terminal |-> FALSE,
                    available_actions |-> <<"x", "y">>,
                    children_map |-> ("x" :> "mid" @@ "y" :> "win")],
      mid      |-> [value |-> 0,  terminal |-> FALSE,
                    available_actions |-> <<"p", "q">>,
                    children_map |-> ("p" :> "lose" @@ "q" :> "win")],
      \* a legal-action list that names the same action twice
      dup      |-> [value |-> 0,  terminal |-> FALSE,
                    available_actions |-> <<"a", "a">>,
                    children_map |-> ("a" :> "win")],
      \* non-terminal, but nothing can be done
      dead     |-> [value |-> 2,  terminal |-> FALSE,
                    available_actions |-> <<>>, children_map |-> <<>>],
      \* a state one can stay in forever
      loop     |-> [value |-> 1,  terminal |-> FALSE,
                    available_actions |-> <<"stay", "quit">>,
                    children_map |-> ("stay" :> "loop" @@ "quit" :> "lose")],
      \* one step more than the chain of the tests
      chain3   |-> [value |-> 0,  terminal |-> FALSE,
                    available_actions |-> <<"to_s0">>,
                    children_map |-> ("to_s0" :> "s0_start")],
      \* objects that lack one operation of BaseState (MissingOperations);
      \* the entry of the operation an object lacks is never read
      no_evaluate       |-> [value |-> 0, terminal |-> TRUE,
                             available_actions |-> <<>>,
                             children_map |-> <<>>],
      no_is_terminated  |-> [value |-> 1, terminal |-> FALSE,
                             available_actions |-> <<>>,
                             children_map |-> <<>>],
      no_get_actions    |-> [value |-> 1, terminal |-> FALSE,
                             available_actions |-> <<>>,
                             children_map |-> <<>>],
      no_get_next_state |-> [value |-> 1, terminal |-> FALSE,
                             available_actions |-> <<"go">>,
                             children_map |-> ("go" :> "win")],
      \* lacks evaluate, but no rollout ever ends in it
      passed_through    |-> [value |-> 0, terminal |-> FALSE,
                             available_actions |-> <<"go">>,
                             children_map |-> ("go" :> "win")],
      \* states whose second move produces one of these objects
      before_gap        |-> [value |-> 0, terminal |-> FALSE,
                             available_actions |-> <<"on">>,
                             children_map |-> ("on" :> "no_evaluate")],
      trap_evaluate     |-> [value |-> 0, terminal |-> FALSE,
                             available_actions |-> <<"ok", "bad">>,
                             children_map |-> ("ok" :> "win" @@
                                              "bad" :> "before_gap")],
      trap_terminated   |-> [value |-> 0, terminal |-> FALSE,
                             available_actions |-> <<"ok", "bad">>,
                             children_map |-> ("ok" :> "win" @@
                                              "bad" :> "no_is_terminated")],
      trap_actions      |-> [value |-> 0, terminal |-> FALSE,
                             available_actions |-> <<"ok", "bad">>,
                             children_map |-> ("ok" :> "win" @@
                                              "bad" :> "no_get_actions")],
      trap_next_state   |-> [value |-> 0, terminal |-> FALSE,
                             available_actions |-> <<"ok", "bad">>,
                             children_map |-> ("ok" :> "win" @@
                                              "bad" :> "no_get_next_state")],
      trap_unused       |-> [value |-> 0, terminal |-> FALSE,
                             available_actions |-> <<"ok", "bad">>,
                             children_map |-> ("ok" :> "win" @@
                                              "bad" :> "passed_through")],
      \* an object whose moves are used up: get_next_state applies each
      \* action once and raises when it is applied again (OneShotStates)
      one_shot          |-> [value |-> 0, terminal |-> FALSE,
                             available_actions |-> <<"l", "r">>,
                             children_map |-> ("l" :> "win" @@
                                              "r" :> "lose")] ]

StateIds == DOMAIN MockStates

(* The state objects whose get_next_state raises for an action it was      *)
(* called with before.  Their successors are terminal, so inside search    *)
(* only expansion applies an action to them, and each action once.         *)
OneShotStates == {"one_shot"}

(* The operations of BaseState a state object does not have.               *)
MissingOperations(s) ==
    CASE s = "no_evaluate"       -> {"evaluate"}
      [] s = "no_is_terminated"  -> {"is_terminated"}
      [] s = "no_get_actions"    -> {"get_all_possible_actions"}
      [] s = "no_get_next_state" -> {"get_next_state"}
      [] s = "passed_through"    -> {"evaluate"}
      [] OTHER                   -> {}

(* hasattr(s, operation)                                                   *)
hasattr(s, operation) == operation \notin MissingOperations(s)

is_terminated(s) == MockStates[s].terminal

get_all_possible_actions(s) == MockStates[s].available_actions

evaluate(s) == MockStates[s].value

(* get_next_state returns the pair (next_state, reward).                   *)
get_next_state(s, a) == <<MockStates[s].children_map[a], transition_rewards>>

----------------------------------------------------------------------------
(* class Node                                                              *)

(* Node.__init__: fresh statistics, no children.                          *)
Node(state, parent, action_taken) ==
    [state |-> state, parent |-> parent, action_taken |-> action_taken,
     children |-> <<>>, visit_count |-> 0, total_reward |-> 0]

NodeIds(ns) == 1..Len(ns)

node_is_terminated(n) == is_terminated(n.state)

(* Float arithmetic.  A float is [sign, exponent, mantissa]: its value is  *)
(* sign * M * 2^(exponent - 52), with M the 53 bits of the mantissa, held  *)
(* as five limbs of eleven bits, the first one the most significant and    *)
(* between 256 and 511.  0.0 and the infinities have the exponents IEEE    *)
(* 754 gives them and no bits.  /, * and + take finite floats and round to *)
(* the nearest float, to the even one of two equally near, as Python's do. *)
(* Wider numbers are sequences of limbs, the least significant first.      *)
(* Every intermediate number stays below 2^31.                             *)

(* The operations are functions of the numbers they are given.            *)
Limbs == Seq(Int)
Floats == [sign : {-1, 1}, exponent : Int, mantissa : Limbs]
Pow2 == [k \in 0..30 |-> 2^k]

(* a > b for two mantissas.                                                *)
above[a \in Limbs, b \in Limbs] ==
    IF a = <<>> THEN FALSE
    ELSE \/ Head(a) > Head(b)
         \/ Head(a) = Head(b) /\ above[Tail(a), Tail(b)]

larger(x, y) ==
    \/ x.exponent > y.exponent
    \/ x.exponent = y.exponent /\ above[x.mantissa, y.mantissa]

(* x > y on floats.                                                        *)
greater[x \in Floats, y \in Floats] ==
    IF x.sign # y.sign THEN x.sign > y.sign
    ELSE IF x.sign = 1 THEN larger(x, y)
    ELSE larger(y, x)

(* The float of exponent e and mantissa cut.mantissa, or the next one away *)
(* from 0 when the bits cut off round up.                                  *)
Cuts == [mantissa : Limbs, up : BOOLEAN]
rounded[sign \in {-1, 1}, e \in Int, cut \in Cuts] ==
    LET m == cut.mantissa
        s5 == m[5] + 1
        s4 == m[4] + s5 \div Base
        s3 == m[3] + s4 \div Base
        s2 == m[2] + s3 \div Base
        s1 == m[1] + s2 \div Base
    IN  IF ~cut.up THEN [sign |-> sign, exponent |-> e, mantissa |-> m]
        ELSE IF s1 = 512
        THEN [sign |-> sign, exponent |-> e + 1,
              mantissa |-> <<256, 0, 0, 0, 0>>]
        ELSE [sign |-> sign, exponent |-> e,
              mantissa |-> <<s1, s2 % Base, s3 % Base, s4 % Base, s5 % Base>>]

(* The number of bits of n.                                                *)
bits[n \in Nat] ==
    CHOOSE b \in 0..30 : n < Pow2[b] /\ (b = 0 \/ Pow2[b - 1] <= n)

(* The long division of a by d continued: m holds the limbs found so far,  *)
(* each step finds the next eleven bits, and what is left after the fifth  *)
(* limb rounds the quotient.                                               *)
divided[m \in Limbs, a \in Nat, d \in Nat] ==
    IF Len(m) = 4
    THEN [mantissa |-> Append(m, a \div d),
          up |-> \/ 2 * (a % d) > d
                 \/ 2 * (a % d) = d /\ (a \div d) % 2 = 1]
    ELSE divided[Append(m, a \div d), (a % d) * Base, d]

(* (d + r) / d for r < d < 2^20, 2^e times: the leading bit and the 52     *)
(* bits after it, eight of them in the first limb.                         *)
digits[sign \in {-1, 1}, r \in Nat, d \in Nat, e \in Int] ==
    rounded[sign, e,
            divided[<<256 + (r * 256) \div d>>, ((r * 256) % d) * Base, d]]

(* n / d for n and d of the same number of bits, 2^e times.                *)
long_division[sign \in {-1, 1}, n \in Nat, d \in Nat, e \in Int] ==
    IF n >= d THEN digits[sign, n - d, d, e]
    ELSE digits[sign, 2 * n - d, d, e - 1]

(* n / d for n with e bits more than d.                                    *)
scaled_division[sign \in {-1, 1}, n \in Nat, d \in Nat, e \in Int] ==
    IF e >= 0 THEN long_division[sign, n, d * Pow2[e], e]
    ELSE long_division[sign, n * Pow2[-e], d, e]

(* n / d, the / of two floats that hold integers, d > 0, both within 2^20. *)
quotient[n \in Int, d \in Nat] ==
    IF n = 0 THEN Zero
    ELSE IF n > 0 THEN scaled_division[1, n, d, bits[n] - bits[d]]
    ELSE scaled_division[-1, -n, d, bits[-n] - bits[d]]

limb(P, k) == IF k \in 1..Len(P) THEN P[k] ELSE 0

(* The limbs of a number given as sums, or differences, of limbs.          *)
carried[cols \in Limbs, carry \in Int] ==
    IF cols = <<>> THEN <<>>
    ELSE <<(Head(cols) + carry) % Base>>
             \o carried[Tail(cols), (Head(cols) + carry) \div Base]

(* The number of bits of P.                                                *)
length[P \in Limbs] ==
    IF \A k \in 1..Len(P) : P[k] = 0 THEN 0
    ELSE LET k == CHOOSE k \in 1..Len(P) :
                      P[k] # 0 /\ \A j \in (k + 1)..Len(P) : P[j] = 0
         IN  11 * (k - 1) + bits[P[k]]

(* P without its last s bits, as a mantissa, and whether these bits round  *)
(* it up: they are more than half of its last place, or half of it and the *)
(* mantissa is odd.                                                        *)
narrowed[P \in Limbs, s \in Nat] ==
    LET q == s \div 11
        b == s % 11
        part(j) == (limb(P, q + j + 1) % Pow2[b]) * Pow2[11 - b]
                       + limb(P, q + j) \div Pow2[b]
        last == limb(P, (s - 1) \div 11 + 1)
        below == Pow2[(s - 1) % 11]
        half == s > 0 /\ (last \div below) % 2 = 1
        more == \/ last % below # 0
                \/ \E j \in 1..((s - 1) \div 11) : P[j] # 0
    IN  [mantissa |-> <<part(5), part(4), part(3), part(2), part(1)>>,
         up |-> half /\ (more \/ part(1) % 2 = 1)]

(* The five limbs m, the most significant first, with d bits added below   *)
(* them, d <= 55.                                                          *)
widened[m \in Limbs, d \in Nat] ==
    LET q == d \div 11
        b == d % 11
        ml(j) == IF j \in 1..5 THEN m[6 - j] ELSE 0
    IN  [k \in 1..10 |-> (ml(k - q) % Pow2[11 - b]) * Pow2[b]
                             + ml(k - q - 1) \div Pow2[11 - b]]

(* The last five limbs of P, the most significant first.                   *)
mantissa_of[P \in Limbs] == <<P[5], P[4], P[3], P[2], P[1]>>

(* The float nearest to sign * P * 2^(e - 52) for P of n bits: P is cut,   *)
(* or filled up, to the 53 bits of a mantissa.                             *)
placed[sign \in {-1, 1}, P \in Limbs, e \in Int, n \in Nat] ==
    IF n = 0 THEN Zero
    ELSE IF n > 53 THEN rounded[sign, e + n - 53, narrowed[P, n - 53]]
    ELSE [sign |-> sign, exponent |-> e + n - 53,
          mantissa |-> mantissa_of[widened[mantissa_of[P], 53 - n]]]

normal[sign \in {-1, 1}, P \in Limbs, e \in Int] ==
    placed[sign, P, e, length[P]]

(* The product of two mantissas.                                           *)
columns[a \in Limbs, b \in Limbs] ==
    LET term(j, k) == IF k + 1 - j \in 1..5
                      THEN a[6 - j] * b[6 - (k + 1 - j)] ELSE 0
    IN  carried[[k \in 1..10 |-> term(1, k) + term(2, k) + term(3, k)
                                     + term(4, k) + term(5, k)], 0]

(* x * y.                                                                  *)
product[x \in Floats, y \in Floats] ==
    IF x = Zero \/ y = Zero THEN Zero
    ELSE normal[x.sign * y.sign, columns[x.mantissa, y.mantissa],
                x.exponent + y.exponent - 52]

(* X + Y and X - Y for two numbers of ten limbs, X >= Y.                   *)
added[X \in Limbs, Y \in Limbs] ==
    carried[[k \in 1..10 |-> X[k] + Y[k]], 0]

subtracted[X \in Limbs, Y \in Limbs] ==
    carried[[k \in 1..10 |-> X[k] - Y[k]], 0]

(* x + y for x.exponent >= y.exponent: y is less than half of the last     *)
(* place of x when the exponents are more than 55 apart; otherwise the     *)
(* mantissas are added, or the smaller one taken from the larger one, in   *)
(* the places of y.                                                        *)
aligned_sum[x \in Floats, y \in Floats] ==
    IF x.exponent - y.exponent > 55 THEN x
    ELSE IF x.sign = y.sign
    THEN normal[x.sign,
                added[widened[x.mantissa, x.exponent - y.exponent],
                      widened[y.mantissa, 0]],
                y.exponent]
    ELSE IF x.exponent > y.exponent \/ above[x.mantissa, y.mantissa]
    THEN normal[x.sign,
                subtracted[widened[x.mantissa, x.exponent - y.exponent],
                           widened[y.mantissa, 0]],
                y.exponent]
    ELSE normal[y.sign,
                subtracted[widened[y.mantissa, 0],
                           widened[x.mantissa, 0]],
                y.exponent]

(* x + y.                                                                  *)
sum[x \in Floats, y \in Floats] ==
    IF x = Zero THEN y
    ELSE IF y = Zero THEN x
    ELSE IF x.exponent < y.exponent THEN aligned_sum[y, x]
    ELSE aligned_sum[x, y]

(* average_reward without the branch for unvisited nodes: the rewards     *)
(* credited so far are returned as they are.                               *)
average_reward_no_zero_test(n) ==
    IF n.visit_count = 0 THEN quotient[n.total_reward, 1]
    ELSE quotient[n.total_reward, n.visit_count]

(* Node.average_reward.                                                    *)
average_reward(n) ==
    IF n.visit_count = 0 THEN Zero
    ELSE quotient[n.total_reward, n.visit_count]

(* math.sqrt(math.log(parent_visit_count) / visit_count): the exponent and *)
(* the mantissa of the float the expression evaluates to, for              *)
(* parent_visit_count (the row) and visit_count (the place in the row) in  *)
(* 1..64.                                                                  *)
RootTable ==
    <<
      << \* parent_visit_count = 1
         <<-1023, <<0, 0, 0, 0, 0>>>>, <<-1023, <<0, 0, 0, 0, 0>>>>,
         <<-1023, <<0, 0, 0, 0, 0>>>>, <<-1023, <<0, 0, 0, 0, 0>>>>,
         <<-1023, <<0, 0, 0, 0, 0>>>>, <<-1023, <<0, 0, 0, 0, 0>>>>,
         <<-1023, <<0, 0, 0, 0, 0>>>>, <<-1023, <<0, 0, 0, 0, 0>>>>,
         <<-1023, <<0, 0, 0, 0, 0>>>>, <<-1023, <<0, 0, 0, 0, 0>>>>,
         <<-1023, <<0, 0, 0, 0, 0>>>>, <<-1023, <<0, 0, 0, 0, 0>>>>,
         <<-1023, <<0, 0, 0, 0, 0>>>>, <<-1023, <<0, 0, 0, 0, 0>>>>,
         <<-1023, <<0, 0, 0, 0, 0>>>>, <<-1023, <<0, 0, 0, 0, 0>>>>,
         <<-1023, <<0, 0, 0, 0, 0>>>>, <<-1023, <<0, 0, 0, 0, 0>>>>,
         <<-1023, <<0, 0, 0, 0, 0>>>>, <<-1023, <<0, 0, 0, 0, 0>>>>,
         <<-1023, <<0, 0, 0, 0, 0>>>>, <<-1023, <<0, 0, 0, 0, 0>>>>,
         <<-1023, <<0, 0, 0, 0, 0>>>>, <<-1023, <<0, 0, 0, 0, 0>>>>,
         <<-1023, <<0, 0, 0, 0, 0>>>>, <<-1023, <<0, 0, 0, 0, 0>>>>,
         <<-1023, <<0, 0, 0, 0, 0>>>>, <<-1023, <<0, 0, 0, 0, 0>>>>,
         <<-1023, <<0, 0, 0, 0, 0>>>>, <<-1023, <<0, 0, 0, 0, 0>>>>,
         <<-1023, <<0, 0, 0, 0, 0>>>>, <<-1023, <<0, 0, 0, 0, 0>>>>,
         <<-1023, <<0, 0, 0, 0, 0>>>>, <<-1023, <<0, 0, 0, 0, 0>>>>,
         <<-1023, <<0, 0, 0, 0, 0>>>>, <<-1023, <<0, 0, 0, 0, 0>>>>,
         <<-1023, <<0, 0, 0, 0, 0>>>>, <<-1023, <<0, 0, 0, 0, 0>>>>,
         <<-1023, <<0, 0, 0, 0, 0>>>>, <<-1023, <<0, 0, 0, 0, 0>>>>,
         <<-1023, <<0, 0, 0, 0, 0>>>>, <<-1023, <<0, 0, 0, 0, 0>>>>,
         <<-1023, <<0, 0, 0, 0, 0>>>>, <<-1023, <<0, 0, 0, 0, 0>>>>,
         <<-1023, <<0, 0, 0, 0, 0>>>>, <<-1023, <<0, 0, 0, 0, 0>>>>,
         <<-1023, <<0, 0, 0, 0, 0>>>>, <<-1023, <<0, 0, 0, 0, 0>>>>,
         <<-1023, <<0, 0, 0, 0, 0>>>>, <<-1023, <<0, 0, 0, 0, 0>>>>,
         <<-1023, <<0, 0, 0, 0, 0>>>>, <<-1023, <<0, 0, 0, 0, 0>>>>,
         <<-1023, <<0, 0, 0, 0, 0>>>>, <<-1023, <<0, 0, 0, 0, 0>>>>,
         <<-1023, <<0, 0, 0, 0, 0>>>>, <<-1023, <<0, 0, 0, 0, 0>>>>,
         <<-1023, <<0, 0, 0, 0, 0>>>>, <<-1023, <<0, 0, 0, 0, 0>>>>,
         <<-1023, <<0, 0, 0, 0, 0>>>>, <<-1023, <<0, 0, 0, 0, 0>>>>,
         <<-1023, <<0, 0, 0, 0, 0>>>>, <<-1023, <<0, 0, 0, 0, 0>>>>,
         <<-1023, <<0, 0, 0, 0, 0>>>>, <<-1023, <<0, 0, 0, 0, 0>>>> >>,
      << \* parent_visit_count = 2
         <<-1, <<426, 548, 1605, 1081, 1351>>>>, <<-1, <<301, 853, 1937, 351, 1091>>>>,
         <<-2, <<492, 433, 1753, 1982, 241>>>>, <<-2, <<426, 548, 1605, 1081, 1351>>>>,
         <<-2, <<381, 544, 125, 774, 303>>>>, <<-2, <<348, 94, 1821, 399, 1839>>>>,
         <<-2, <<322, 467, 1103, 813, 2037>>>>, <<-2, <<301, 853, 1937, 351, 1091>>>>,
         <<-2, <<284, 365, 1753, 38, 901>>>>, <<-2, <<269, 1219, 1321, 1832, 212>>>>,
         <<-2, <<257, 100, 1778, 491, 894>>>>, <<-3, <<492, 433, 1753, 1982, 241>>>>,
         <<-3, <<472, 1846, 1996, 469, 1215>>>>, <<-3, <<455, 1432, 1676, 1241, 950>>>>,
         <<-3, <<440, 507, 412, 1268, 89>>>>, <<-3, <<426, 548, 1605, 1081, 1351>>>>,
         <<-3, <<413, 1107, 578, 1563, 1645>>>>, <<-3, <<401, 1821, 534, 1834, 89>>>>,
         <<-3, <<391, 348, 1620, 1719, 32>>>>, <<-3, <<381, 544, 125, 774, 303>>>>,
         <<-3, <<372, 158, 134, 315, 827>>>>, <<-3, <<363, 1070, 325, 692, 1223>>>>,
         <<-3, <<355, 1089, 1334, 622, 920>>>>, <<-3, <<348, 94, 1821, 399, 1839>>>>,
         <<-3, <<341, 29, 874, 1684, 1081>>>>, <<-3, <<334, 803, 43, 120, 818>>>>,
         <<-3, <<328, 289, 486, 1321, 844>>>>, <<-3, <<322, 467, 1103, 813, 2037>>>>,
         <<-3, <<316, 1277, 1499, 663, 911>>>>, <<-3, <<311, 618, 1450, 1077, 576>>>>,
         <<-3, <<306, 491, 827, 1635, 484>>>>, <<-3, <<301, 853, 1937, 351, 1091>>>>,
         <<-3, <<296, 1668, 1915, 706, 913>>>>, <<-3, <<292, 854, 1747, 409, 1724>>>>,
         <<-3, <<288, 429, 1140, 1739, 95>>>>, <<-3, <<284, 365, 1753, 38, 901>>>>,
         <<-3, <<280, 639, 304, 1555, 1289>>>>, <<-3, <<276, 1227, 237, 70, 115>>>>,
         <<-3, <<273, 61, 928, 173, 597>>>>, <<-3, <<269, 1219, 1321, 1832, 212>>>>,
         <<-3, <<266, 588, 1571, 1569, 1213>>>>, <<-3, <<263, 201, 641, 376, 928>>>>,
         <<-3, <<260, 43, 93, 1756, 834>>>>, <<-3, <<257, 100, 1778, 491, 894>>>>,
         <<-4, <<508, 725, 849, 1714, 1770>>>>, <<-4, <<502, 1634, 1696, 899, 50>>>>,
         <<-4, <<497, 861, 712, 383, 517>>>>, <<-4, <<492, 433, 1753, 1982, 241>>>>,
         <<-4, <<487, 334, 1249, 1528, 1544>>>>, <<-4, <<482, 547, 232, 562, 927>>>>,
         <<-4, <<477, 1056, 16, 735, 191>>>>, <<-4, <<472, 1846, 1996, 469, 1215>>>>,
         <<-4, <<468, 858, 1320, 75, 1748>>>>, <<-4, <<464, 126, 1062, 1898, 1087>>>>,
         <<-4, <<459, 1686, 1840, 979, 2018>>>>, <<-4, <<455, 1432, 1676, 1241, 950>>>>,
         <<-4, <<451, 1401, 2028, 542, 439>>>>, <<-4, <<447, 1584, 1533, 1056, 1781>>>>,
         <<-4, <<443, 1972, 9, 1436, 524>>>>, <<-4, <<440, 507, 412, 1268, 89>>>>,
         <<-4, <<436, 1278, 563, 1527, 1304>>>>, <<-4, <<433, 181, 1268, 1333, 934>>>>,
         <<-4, <<429, 1306, 105, 1767, 2034>>>>, <<-4, <<426, 548, 1605, 1081, 1351>>>> >>,
      << \* parent_visit_count = 3
         <<0, <<268, 666, 1911, 46, 1772>>>>, <<-1, <<379, 962, 201, 1730, 879>>>>,
         <<-1, <<309, 1711, 1360, 1104, 1075>>>>, <<-1, <<268, 666, 1911, 46, 1772>>>>,
         <<-2, <<479, 2038, 1674, 1540, 1588>>>>, <<-2, <<438, 356, 524, 621, 770>>>>,
         <<-2, <<405, 1372, 1388, 1746, 1275>>>>, <<-2, <<379, 962, 201, 1730, 879>>>>,
         <<-2, <<357, 1571, 1865, 745, 314>>>>, <<-2, <<339, 835, 1551, 93, 902>>>>,
         <<-2, <<323, 1255, 495, 1782, 1778>>>>, <<-2, <<309, 1711, 1360, 1104, 1075>>>>,
         <<-2, <<297, 1393, 1705, 1441, 1520>>>>, <<-2, <<286, 1745, 570, 1240, 2039>>>>,
         <<-2, <<277, 257, 219, 1326, 147>>>>, <<-2, <<268, 666, 1911, 46, 1772>>>>,
         <<-2, <<260, 643, 641, 1563, 403>>>>, <<-3, <<505, 1965, 951, 1624, 1171>>>>,
         <<-3, <<492, 952, 693, 273, 2045>>>>, <<-3, <<479, 2038, 1674, 1540, 1588>>>>,
         <<-3, <<468, 875, 1734, 307, 1351>>>>, <<-3, <<457, 1347, 222, 1685, 933>>>>,
         <<-3, <<447, 1224, 1974, 1397, 1506>>>>, <<-3, <<438, 356, 524, 621, 770>>>>,
         <<-3, <<429, 657, 1009, 1303, 1606>>>>, <<-3, <<420, 2015, 126, 1720, 1793>>>>,
         <<-3, <<413, 234, 448, 1472, 1433>>>>, <<-3, <<405, 1372, 1388, 1746, 1275>>>>,
         <<-3, <<398, 1258, 1351, 179, 1034>>>>, <<-3, <<391, 1873, 617, 1552, 317>>>>,
         <<-3, <<385, 1109, 724, 872, 2008>>>>, <<-3, <<379, 962, 201, 1730, 879>>>>,
         <<-3, <<373, 1384, 929, 350, 102>>>>, <<-3, <<368, 286, 450, 1869, 1783>>>>,
         <<-3, <<362, 1725, 921, 1084, 536>>>>, <<-3, <<357, 1571, 1865, 745, 314>>>>,
         <<-3, <<352, 1842, 1292, 1339, 1157>>>>, <<-3, <<348, 461, 1047, 727, 1432>>>>,
         <<-3, <<343, 1498, 2027, 2029, 1657>>>>, <<-3, <<339, 835, 1551, 93, 902>>>>,
         <<-3, <<335, 498, 1033, 1666, 1025>>>>, <<-3, <<331, 467, 1456, 688, 46>>>>,
         <<-3, <<327, 725, 928, 443, 186>>>>, <<-3, <<323, 1255, 495, 1782, 1778>>>>,
         <<-3, <<319, 2041, 1799, 344, 1059>>>>, <<-3, <<316, 1023, 667, 1204, 856>>>>,
         <<-3, <<313, 234, 1226, 1939, 56>>>>, <<-3, <<309, 1711, 1360, 1104, 1075>>>>,
         <<-3, <<306, 1347, 721, 346, 269>>>>, <<-3, <<303, 1179, 571, 155, 1112>>>>,
         <<-3, <<300, 1197, 1591, 440, 662>>>>, <<-3, <<297, 1393, 1705, 1441, 1520>>>>,
         <<-3, <<294, 1759, 63, 1172, 558>>>>, <<-3, <<292, 237, 1032, 414, 513>>>>,
         <<-3, <<289, 917, 1817, 148, 1224>>>>, <<-3, <<286, 1745, 570, 1240, 2039>>>>,
         <<-3, <<284, 665, 413, 154, 332>>>>, <<-3, <<281, 1767, 1172, 1356, 412>>>>,
         <<-3, <<279, 950, 1371, 1796, 510>>>>, <<-3, <<277, 257, 219, 1326, 147>>>>,
         <<-3, <<274, 1729, 1656, 961, 621>>>>, <<-3, <<272, 1267, 2020, 178, 1809>>>>,
         <<-3, <<270, 915, 243, 481, 1533>>>>, <<-3, <<268, 666, 1911, 46, 1772>>>> >>,
      << \* parent_visit_count = 4
         <<0, <<301, 853, 1937, 351, 1091>>>>, <<-1, <<426, 548, 1605, 1081, 1351>>>>,
         <<-1, <<348, 94, 1821, 399, 1839>>>>, <<-1, <<301, 853, 1937, 351, 1091>>>>,
         <<-1, <<269, 1219, 1321, 1832, 212>>>>, <<-2, <<492, 433, 1753, 1982, 241>>>>,
         <<-2, <<455, 1432, 1676, 1241, 950>>>>, <<-2, <<426, 548, 1605, 1081, 1351>>>>,
         <<-2, <<401, 1821, 534, 1834, 89>>>>, <<-2, <<381, 544, 125, 774, 303>>>>,
         <<-2, <<363, 1070, 325, 692, 1223>>>>, <<-2, <<348, 94, 1821, 399, 1839>>>>,
         <<-2, <<334, 803, 43, 120, 818>>>>, <<-2, <<322, 467, 1103, 813, 2037>>>>,
         <<-2, <<311, 618, 1450, 1077, 576>>>>, <<-2, <<301, 853, 1937, 351, 1091>>>>,
         <<-2, <<292, 854, 1747, 409, 1724>>>>, <<-2, <<284, 365, 1753, 38, 901>>>>,
         <<-2, <<276, 1227, 237, 70, 115>>>>, <<-2, <<269, 1219, 1321, 1832, 212>>>>,
         <<-2, <<263, 201, 641, 376, 928>>>>, <<-2, <<257, 100, 1778, 491, 894>>>>,
         <<-3, <<502, 1634, 1696, 899, 50>>>>, <<-3, <<492, 433, 1753, 1982, 241>>>>,
         <<-3, <<482, 547, 232, 562, 927>>>>, <<-3, <<472, 1846, 1996, 469, 1215>>>>,
         <<-3, <<464, 126, 1062, 1898, 1087>>>>, <<-3, <<455, 1432, 1676, 1241, 950>>>>,
         <<-3, <<447, 1584, 1533, 1056, 1781>>>>, <<-3, <<440, 507, 412, 1268, 89>>>>,
         <<-3, <<433, 181, 1268, 1333, 934>>>>, <<-3, <<426, 548, 1605, 1081, 1351>>>>,
         <<-3, <<419, 1555, 1650, 1626, 1006>>>>, <<-3, <<413, 1107, 578, 1563, 1645>>>>,
         <<-3, <<407, 1208, 1199, 743, 1087>>>>, <<-3, <<401, 1821, 534, 1834, 89>>>>,
         <<-3, <<396, 862, 1061, 226, 1201>>>>, <<-3, <<391, 348, 1620, 1719, 32>>>>,
         <<-3, <<386, 251, 752, 1219, 1456>>>>, <<-3, <<381, 544, 125, 774, 303>>>>,
         <<-3, <<376, 1202, 1918, 1493, 1999>>>>, <<-3, <<372, 158, 134, 315, 827>>>>,
         <<-3, <<367, 1485, 642, 884, 1360>>>>, <<-3, <<363, 1070, 325, 692, 1223>>>>,
         <<-3, <<359, 943, 1079, 1760, 283>>>>, <<-3, <<355, 1089, 1334, 622, 920>>>>,
         <<-3, <<351, 1493, 1934, 1546, 1606>>>>, <<-3, <<348, 94, 1821, 399, 1839>>>>,
         <<-3, <<344, 975, 1921, 694, 662>>>>, <<-3, <<341, 29, 874, 1684, 1081>>>>,
         <<-3, <<337, 1340, 1016, 1801, 33>>>>, <<-3, <<334, 803, 43, 120, 818>>>>,
         <<-3, <<331, 455, 1120, 1810, 936>>>>, <<-3, <<328, 289, 486, 1321, 844>>>>,
         <<-3, <<325, 295, 1677, 1569, 1375>>>>, <<-3, <<322, 467, 1103, 813, 2037>>>>,
         <<-3, <<319, 797, 248, 121, 756>>>>, <<-3, <<316, 1277, 1499, 663, 911>>>>,
         <<-3, <<313, 1902, 1934, 1310, 1747>>>>, <<-3, <<311, 618, 1450, 1077, 576>>>>,
         <<-3, <<308, 1515, 657, 921, 1588>>>>, <<-3, <<306, 491, 827, 1635, 484>>>>,
         <<-3, <<303, 1637, 1800, 827, 1316>>>>, <<-3, <<301, 853, 1937, 351, 1091>>>> >>,
      << \* parent_visit_count = 5
         <<0, <<324, 1578, 1551, 1221, 1719>>>>, <<-1, <<459, 604, 1921, 767, 1917>>>>,
         <<-1, <<375, 26, 1728, 676, 676>>>>, <<-1, <<324, 1578, 1551, 1221, 1719>>>>,
         <<-1, <<290, 991, 72, 106, 1548>>>>, <<-1, <<265, 356, 2026, 860, 809>>>>,
         <<-2, <<491, 15, 379, 331, 120>>>>, <<-2, <<459, 604, 1921, 767, 1917>>>>,
         <<-2, <<433, 57, 20, 1629, 244>>>>, <<-2, <<410, 1651, 520, 1900, 1168>>>>,
         <<-2, <<391, 1409, 1794, 915, 191>>>>, <<-2, <<375, 26, 1728, 676, 676>>>>,
         <<-2, <<360, 616, 662, 1205, 476>>>>, <<-2, <<347, 398, 1411, 1229, 436>>>>,
         <<-2, <<335, 864, 189, 1371, 358>>>>, <<-2, <<324, 1578, 1551, 1221, 1719>>>>,
         <<-2, <<315, 151, 1261, 1652, 1403>>>>, <<-2, <<306, 403, 598, 511, 1961>>>>,
         <<-2, <<298, 61, 1727, 1053, 1914>>>>, <<-2, <<290, 991, 72, 106, 1548>>>>,
         <<-2, <<283, 989, 1479, 1945, 155>>>>, <<-2, <<276, 1977, 851, 1878, 240>>>>,
         <<-2, <<270, 1797, 820, 1642, 445>>>>, <<-2, <<265, 356, 2026, 860, 809>>>>,
         <<-2, <<259, 1672, 1241, 567, 1785>>>>, <<-3, <<509, 1110, 2024, 333, 631>>>>,
         <<-3, <<500, 35, 1621, 1584, 901>>>>, <<-3, <<491, 15, 379, 331, 120>>>>,
         <<-3, <<482, 957, 916, 1985, 924>>>>, <<-3, <<474, 733, 1336, 85, 456>>>>,
         <<-3, <<466, 1320, 173, 1669, 853>>>>, <<-3, <<459, 604, 1921, 767, 1917>>>>,
         <<-3, <<452, 579, 461, 1763, 1>>>>, <<-3, <<445, 1191, 1783, 1347, 49>>>>,
         <<-3, <<439, 348, 1932, 1006, 689>>>>, <<-3, <<433, 57, 20, 1629, 244>>>>,
         <<-3, <<427, 278, 1195, 1363, 383>>>>, <<-3, <<421, 979, 1339, 405, 1893>>>>,
         <<-3, <<416, 81, 577, 1297, 1005>>>>, <<-3, <<410, 1651, 520, 1900, 1168>>>>,
         <<-3, <<405, 1567, 1598, 1021, 1908>>>>, <<-3, <<400, 1855, 476, 341, 219>>>>,
         <<-3, <<396, 443, 1877, 1933, 965>>>>, <<-3, <<391, 1409, 1794, 915, 191>>>>,
         <<-3, <<387, 638, 1461, 825, 16>>>>, <<-3, <<383, 161, 901, 300, 392>>>>,
         <<-3, <<378, 2010, 693, 242, 117>>>>, <<-3, <<375, 26, 1728, 676, 676>>>>,
         <<-3, <<371, 341, 895, 1103, 1672>>>>, <<-3, <<367, 893, 1127, 1023, 1943>>>>,
         <<-3, <<363, 1671, 988, 456, 1670>>>>, <<-3, <<360, 616, 662, 1205, 476>>>>,
         <<-3, <<356, 1813, 1818, 126, 1275>>>>, <<-3, <<353, 1158, 1336, 1147, 396>>>>,
         <<-3, <<350, 689, 1442, 1617, 449>>>>, <<-3, <<347, 398, 1411, 1229, 436>>>>,
         <<-3, <<344, 277, 1573, 194, 888>>>>, <<-3, <<341, 319, 1182, 812, 1756>>>>,
         <<-3, <<338, 517, 393, 234, 1770>>>>, <<-3, <<335, 864, 189, 1371, 358>>>>,
         <<-3, <<332, 1354, 277, 1535, 732>>>>, <<-3, <<329, 1981, 1076, 505, 1834>>>>,
         <<-3, <<327, 692, 1618, 220, 1446>>>>, <<-3, <<324, 1578, 1551, 1221, 1719>>>> >>,
      << \* parent_visit_count = 6
         <<0, <<342, 1378, 400, 221, 1377>>>>, <<-1, <<484, 1254, 1779, 1795, 751>>>>,
         <<-1, <<395, 1402, 276, 1904, 1977>>>>, <<-1, <<342, 1378, 400, 221, 1377>>>>,
         <<-1, <<306, 1015, 1660, 1148, 836>>>>, <<-1, <<279, 1620, 1148, 2029, 921>>>>,
         <<-1, <<259, 74, 1119, 158, 86>>>>, <<-2, <<484, 1254, 1779, 1795, 751>>>>,
         <<-2, <<456, 1837, 1216, 295, 1153>>>>, <<-2, <<433, 923, 496, 957, 1806>>>>,
         <<-2, <<413, 571, 1322, 1418, 142>>>>, <<-2, <<395, 1402, 276, 1904, 1977>>>>,
         <<-2, <<380, 330, 1547, 1621, 1748>>>>, <<-2, <<366, 681, 1132, 615, 812>>>>,
         <<-2, <<353, 1865, 1901, 313, 534>>>>, <<-2, <<342, 1378, 400, 221, 1377>>>>,
         <<-2, <<332, 904, 768, 1171, 298>>>>, <<-2, <<323, 153, 1869, 514, 501>>>>,
         <<-2, <<314, 938, 1067, 1792, 254>>>>, <<-2, <<306, 1015, 1660, 1148, 836>>>>,
         <<-2, <<299, 224, 398, 1820, 958>>>>, <<-2, <<292, 476, 206, 664, 1379>>>>,
         <<-2, <<285, 1656, 1682, 1895, 1579>>>>, <<-2, <<279, 1620, 1148, 2029, 921>>>>,
         <<-2, <<274, 283, 729, 1406, 282>>>>, <<-2, <<268, 1668, 1353, 1616, 355>>>>,
         <<-2, <<263, 1617, 867, 587, 635>>>>, <<-2, <<259, 74, 1119, 158, 86>>>>,
         <<-3, <<509, 127, 580, 1297, 1139>>>>, <<-3, <<500, 1036, 62, 1960, 307>>>>,
         <<-3, <<492, 751, 1366, 1516, 1892>>>>, <<-3, <<484, 1254, 1779, 1795, 751>>>>,
         <<-3, <<477, 437, 1040, 535, 590>>>>, <<-3, <<470, 293, 1418, 621, 1669>>>>,
         <<-3, <<463, 774, 1966, 1216, 246>>>>, <<-3, <<456, 1837, 1216, 295, 1153>>>>,
         <<-3, <<450, 1394, 82, 334, 340>>>>, <<-3, <<444, 1456, 847, 560, 1413>>>>,
         <<-3, <<438, 1992, 145, 163, 1706>>>>, <<-3, <<433, 923, 496, 957, 1806>>>>,
         <<-3, <<428, 270, 1467, 779, 271>>>>, <<-3, <<423, 9, 1152, 547, 1550>>>>,
         <<-3, <<418, 116, 1826, 360, 859>>>>, <<-3, <<413, 571, 1322, 1418, 142>>>>,
         <<-3, <<408, 1354, 848, 1531, 432>>>>, <<-3, <<404, 399, 556, 1586, 413>>>>,
         <<-3, <<399, 1785, 1299, 1864, 1315>>>>, <<-3, <<395, 1402, 276, 1904, 1977>>>>,
         <<-3, <<391, 1282, 1042, 838, 988>>>>, <<-3, <<387, 1413, 1014, 617, 192>>>>,
         <<-3, <<383, 1782, 1531, 1370, 198>>>>, <<-3, <<380, 330, 1547, 1621, 1748>>>>,
         <<-3, <<376, 1142, 1580, 528, 1273>>>>, <<-3, <<373, 112, 1531, 2023, 545>>>>,
         <<-3, <<369, 1327, 573, 852, 1932>>>>, <<-3, <<366, 681, 1132, 615, 812>>>>,
         <<-3, <<363, 215, 605, 1674, 1702>>>>, <<-3, <<359, 1968, 1513, 1640, 1115>>>>,
         <<-3, <<356, 1838, 1180, 194, 862>>>>, <<-3, <<353, 1865, 1901, 313, 534>>>>,
         <<-3, <<350, 2044, 641, 203, 806>>>>, <<-3, <<348, 319, 1260, 1177, 1501>>>>,
         <<-3, <<345, 782, 126, 1576, 115>>>>, <<-3, <<342, 1378, 400, 221, 1377>>>> >>,
      << \* parent_visit_count = 7
         <<0, <<357, 224, 363, 34, 686>>>>, <<-1, <<505, 59, 986, 869, 816>>>>,
         <<-1, <<412, 725, 2028, 798, 247>>>>, <<-1, <<357, 224, 363, 34, 686>>>>,
         <<-1, <<319, 836, 878, 1005, 1700>>>>, <<-1, <<291, 1185, 172, 714, 1798>>>>,
         <<-1, <<269, 1944, 671, 1321, 241>>>>, <<-2, <<505, 59, 986, 869, 816>>>>,
         <<-2, <<476, 298, 1849, 728, 914>>>>, <<-2, <<451, 1457, 1187, 1834, 813>>>>,
         <<-2, <<430, 1413, 1150, 565, 1149>>>>, <<-2, <<412, 725, 2028, 798, 247>>>>,
         <<-2, <<396, 363, 548, 379, 422>>>>, <<-2, <<381, 1568, 1878, 171, 1044>>>>,
         <<-2, <<368, 1681, 1112, 505, 1861>>>>, <<-2, <<357, 224, 363, 34, 686>>>>,
         <<-2, <<346, 915, 1210, 200, 1751>>>>, <<-2, <<336, 1404, 2022, 1944, 1910>>>>,
         <<-2, <<327, 1446, 260, 842, 906>>>>, <<-2, <<319, 836, 878, 1005, 1700>>>>,
         <<-2, <<311, 1455, 1023, 85, 1865>>>>, <<-2, <<304, 1114, 112, 548, 1386>>>>,
         <<-2, <<297, 1740, 1137, 518, 1167>>>>, <<-2, <<291, 1185, 172, 714, 1798>>>>,
         <<-2, <<285, 1408, 290, 846, 1368>>>>, <<-2, <<280, 286, 256, 1796, 1258>>>>,
         <<-2, <<274, 1849, 669, 1214, 1530>>>>, <<-2, <<269, 1944, 671, 1321, 241>>>>,
         <<-2, <<265, 520, 1437, 493, 1303>>>>, <<-2, <<260, 1629, 1957, 382, 391>>>>,
         <<-2, <<256, 1136, 1355, 2027, 636>>>>, <<-3, <<505, 59, 986, 869, 816>>>>,
         <<-3, <<497, 651, 1479, 1502, 655>>>>, <<-3, <<489, 1945, 1812, 1106, 1303>>>>,
         <<-3, <<482, 1843, 952, 121, 1133>>>>, <<-3, <<476, 298, 1849, 728, 914>>>>,
         <<-3, <<469, 1366, 2006, 1998, 119>>>>, <<-3, <<463, 914, 611, 676, 606>>>>,
         <<-3, <<457, 954, 1719, 1035, 695>>>>, <<-3, <<451, 1457, 1187, 1834, 813>>>>,
         <<-3, <<446, 346, 330, 1198, 953>>>>, <<-3, <<440, 1690, 1235, 26, 816>>>>,
         <<-3, <<435, 1371, 105, 697, 988>>>>, <<-3, <<430, 1413, 1150, 565, 1149>>>>,
         <<-3, <<425, 1797, 1853, 2023, 1583>>>>, <<-3, <<421, 457, 822, 579, 642>>>>,
         <<-3, <<416, 1470, 1573, 966, 299>>>>, <<-3, <<412, 725, 2028, 798, 247>>>>,
         <<-3, <<408, 256, 414, 1794, 1369>>>>, <<-3, <<404, 47, 1198, 1514, 1472>>>>,
         <<-3, <<400, 87, 557, 1659, 840>>>>, <<-3, <<396, 363, 548, 379, 422>>>>,
         <<-3, <<392, 864, 760, 353, 1517>>>>, <<-3, <<388, 1580, 229, 1635, 1714>>>>,
         <<-3, <<385, 452, 1412, 51, 1719>>>>, <<-3, <<381, 1568, 1878, 171, 1044>>>>,
         <<-3, <<378, 824, 359, 1093, 1163>>>>, <<-3, <<375, 258, 753, 1726, 166>>>>,
         <<-3, <<371, 1911, 1802, 876, 1278>>>>, <<-3, <<368, 1681, 1112, 505, 1861>>>>,
         <<-3, <<365, 1608, 1232, 251, 1021>>>>, <<-3, <<362, 1686, 1399, 201, 104>>>>,
         <<-3, <<359, 1909, 1578, 396, 321>>>>, <<-3, <<357, 224, 363, 34, 686>>>> >>,
      << \* parent_visit_count = 8
         <<0, <<369, 325, 803, 974, 1205>>>>, <<0, <<261, 71, 341, 1835, 1891>>>>,
         <<-1, <<426, 548, 1605, 1081, 1351>>>>, <<-1, <<369, 325, 803, 974, 1205>>>>,
         <<-1, <<330, 380, 821, 951, 66>>>>, <<-1, <<301, 853, 1937, 351, 1091>>>>,
         <<-1, <<279, 118, 1124, 1260, 1132>>>>, <<-1, <<261, 71, 341, 1835, 1891>>>>,
         <<-2, <<492, 433, 1753, 1982, 241>>>>, <<-2, <<466, 1952, 127, 1615, 1888>>>>,
         <<-2, <<445, 455, 825, 35, 1369>>>>, <<-2, <<426, 548, 1605, 1081, 1351>>>>,
         <<-2, <<409, 1116, 368, 259, 1920>>>>, <<-2, <<394, 1325, 1985, 1588, 1391>>>>,
         <<-2, <<381, 544, 125, 774, 303>>>>, <<-2, <<369, 325, 803, 974, 1205>>>>,
         <<-2, <<358, 280, 12, 551, 655>>>>, <<-2, <<348, 94, 1821, 399, 1839>>>>,
         <<-2, <<338, 1563, 1009, 406, 1353>>>>, <<-2, <<330, 380, 821, 951, 66>>>>,
         <<-2, <<322, 467, 1103, 813, 2037>>>>, <<-2, <<314, 1678, 1750, 195, 1778>>>>,
         <<-2, <<307, 1842, 1588, 296, 132>>>>, <<-2, <<301, 853, 1937, 351, 1091>>>>,
         <<-2, <<295, 669, 1871, 1189, 554>>>>, <<-2, <<289, 1212, 1076, 914, 1604>>>>,
         <<-2, <<284, 365, 1753, 38, 901>>>>, <<-2, <<279, 118, 1124, 1260, 1132>>>>,
         <<-2, <<274, 418, 976, 1696, 1841>>>>, <<-2, <<269, 1219, 1321, 1832, 212>>>>,
         <<-2, <<265, 433, 607, 1591, 1856>>>>, <<-2, <<261, 71, 341, 1835, 1891>>>>,
         <<-2, <<257, 100, 1778, 491, 894>>>>, <<-3, <<506, 986, 1525, 653, 1073>>>>,
         <<-3, <<499, 397, 307, 1113, 2040>>>>, <<-3, <<492, 433, 1753, 1982, 241>>>>,
         <<-3, <<485, 1054, 518, 1561, 1446>>>>, <<-3, <<479, 171, 1396, 182, 110>>>>,
         <<-3, <<472, 1846, 1996, 469, 1215>>>>, <<-3, <<466, 1952, 127, 1615, 1888>>>>,
         <<-3, <<461, 457, 1289, 439, 747>>>>, <<-3, <<455, 1432, 1676, 1241, 950>>>>,
         <<-3, <<450, 756, 1989, 1617, 720>>>>, <<-3, <<445, 455, 825, 35, 1369>>>>,
         <<-3, <<440, 507, 412, 1268, 89>>>>, <<-3, <<435, 893, 115, 1046, 1163>>>>,
         <<-3, <<430, 1595, 209, 1571, 104>>>>, <<-3, <<426, 548, 1605, 1081, 1351>>>>,
         <<-3, <<421, 1834, 1503, 821, 499>>>>, <<-3, <<417, 1342, 1366, 479, 1797>>>>,
         <<-3, <<413, 1107, 578, 1563, 1645>>>>, <<-3, <<409, 1116, 368, 259, 1920>>>>,
         <<-3, <<405, 1357, 1598, 1392, 662>>>>, <<-3, <<401, 1821, 534, 1834, 89>>>>,
         <<-3, <<398, 448, 1002, 903, 105>>>>, <<-3, <<394, 1325, 1985, 1588, 1391>>>>,
         <<-3, <<391, 348, 1620, 1719, 32>>>>, <<-3, <<387, 1604, 1197, 1184, 1868>>>>,
         <<-3, <<384, 989, 979, 462, 1577>>>>, <<-3, <<381, 544, 125, 774, 303>>>>,
         <<-3, <<378, 261, 718, 77, 55>>>>, <<-3, <<375, 134, 1553, 1819, 319>>>>,
         <<-3, <<372, 158, 134, 315, 827>>>>, <<-3, <<369, 325, 803, 974, 1205>>>> >>,
      << \* parent_visit_count = 9
         <<0, <<379, 962, 201, 1730, 879>>>>, <<0, <<268, 666, 1911, 46, 1772>>>>,
         <<-1, <<438, 356, 524, 621, 770>>>>, <<-1, <<379, 962, 201, 1730, 879>>>>,
         <<-1, <<339, 835, 1551, 93, 902>>>>, <<-1, <<309, 1711, 1360, 1104, 1075>>>>,
         <<-1, <<286, 1745, 570, 1240, 2039>>>>, <<-1, <<268, 666, 1911, 46, 1772>>>>,
         <<-2, <<505, 1965, 951, 1624, 1171>>>>, <<-2, <<479, 2038, 1674, 1540, 1588>>>>,
         <<-2, <<457, 1347, 222, 1685, 933>>>>, <<-2, <<438, 356, 524, 621, 770>>>>,
         <<-2, <<420, 2015, 126, 1720, 1793>>>>, <<-2, <<405, 1372, 1388, 1746, 1275>>>>,
         <<-2, <<391, 1873, 617, 1552, 317>>>>, <<-2, <<379, 962, 201, 1730, 879>>>>,
         <<-2, <<368, 286, 450, 1869, 1783>>>>, <<-2, <<357, 1571, 1865, 745, 314>>>>,
         <<-2, <<348, 461, 1047, 727, 1432>>>>, <<-2, <<339, 835, 1551, 93, 902>>>>,
         <<-2, <<331, 467, 1456, 688, 46>>>>, <<-2, <<323, 1255, 495, 1782, 1778>>>>,
         <<-2, <<316, 1023, 667, 1204, 856>>>>, <<-2, <<309, 1711, 1360, 1104, 1075>>>>,
         <<-2, <<303, 1179, 571, 155, 1112>>>>, <<-2, <<297, 1393, 1705, 1441, 1520>>>>,
         <<-2, <<292, 237, 1032, 414, 513>>>>, <<-2, <<286, 1745, 570, 1240, 2039>>>>,
         <<-2, <<281, 1767, 1172, 1356, 412>>>>, <<-2, <<277, 257, 219, 1326, 147>>>>,
         <<-2, <<272, 1267, 2020, 178, 1809>>>>, <<-2, <<268, 666, 1911, 46, 1772>>>>,
         <<-2, <<264, 468, 1341, 1625, 1248>>>>, <<-2, <<260, 643, 641, 1563, 403>>>>,
         <<-2, <<256, 1164, 152, 677, 253>>>>, <<-3, <<505, 1965, 951, 1624, 1171>>>>,
         <<-3, <<499, 154, 1585, 1418, 848>>>>, <<-3, <<492, 952, 693, 273, 2045>>>>,
         <<-3, <<486, 226, 16, 1591, 1841>>>>, <<-3, <<479, 2038, 1674, 1540, 1588>>>>,
         <<-3, <<474, 216, 1296, 1249, 1709>>>>, <<-3, <<468, 875, 1734, 307, 1351>>>>,
         <<-3, <<462, 1943, 228, 1411, 1019>>>>, <<-3, <<457, 1347, 222, 1685, 933>>>>,
         <<-3, <<452, 1114, 702, 1489, 1885>>>>, <<-3, <<447, 1224, 1974, 1397, 1506>>>>,
         <<-3, <<442, 1660, 1244, 1706, 538>>>>, <<-3, <<438, 356, 524, 621, 770>>>>,
         <<-3, <<433, 1392, 230, 1392, 1004>>>>, <<-3, <<429, 657, 1009, 1303, 1606>>>>,
         <<-3, <<425, 186, 1485, 195, 413>>>>, <<-3, <<420, 2015, 126, 1720, 1793>>>>,
         <<-3, <<416, 2034, 1232, 1930, 482>>>>, <<-3, <<413, 234, 448, 1472, 1433>>>>,
         <<-3, <<409, 699, 1020, 541, 384>>>>, <<-3, <<405, 1372, 1388, 1746, 1275>>>>,
         <<-3, <<402, 196, 1228, 1519, 1209>>>>, <<-3, <<398, 1258, 1351, 179, 1034>>>>,
         <<-3, <<395, 454, 1568, 1755, 298>>>>, <<-3, <<391, 1873, 617, 1552, 317>>>>,
         <<-3, <<388, 1411, 180, 670, 1198>>>>, <<-3, <<385, 1109, 724, 872, 2008>>>>,
         <<-3, <<382, 961, 1443, 971, 2036>>>>, <<-3, <<379, 962, 201, 1730, 879>>>> >>,
      << \* parent_visit_count = 10
         <<0, <<388, 944, 1709, 1419, 923>>>>, <<0, <<274, 1400, 241, 1341, 808>>>>,
         <<-1, <<448, 1139, 1560, 651, 1263>>>>, <<-1, <<388, 944, 1709, 1419, 923>>>>,
         <<-1, <<347, 922, 815, 914, 144>>>>, <<-1, <<317, 363, 478, 492, 1391>>>>,
         <<-1, <<293, 1329, 1046, 174, 1692>>>>, <<-1, <<274, 1400, 241, 1341, 808>>>>,
         <<-1, <<258, 1995, 457, 263, 1298>>>>, <<-2, <<491, 755, 1682, 380, 381>>>>,
         <<-2, <<468, 1028, 238, 592, 1134>>>>, <<-2, <<448, 1139, 1560, 651, 1263>>>>,
         <<-2, <<430, 1964, 773, 500, 1289>>>>, <<-2, <<415, 578, 1759, 1623, 396>>>>,
         <<-2, <<401, 411, 1964, 2006, 94>>>>, <<-2, <<388, 944, 1709, 1419, 923>>>>,
         <<-2, <<376, 1767, 283, 1081, 44>>>>, <<-2, <<366, 501, 1004, 1788, 1078>>>>,
         <<-2, <<356, 976, 66, 437, 1502>>>>, <<-2, <<347, 922, 815, 914, 144>>>>,
         <<-2, <<339, 157, 841, 148, 902>>>>, <<-2, <<331, 575, 782, 552, 1180>>>>,
         <<-2, <<323, 2046, 568, 1623, 898>>>>, <<-2, <<317, 363, 478, 492, 1391>>>>,
         <<-2, <<310, 1575, 138, 1954, 1557>>>>, <<-2, <<304, 1503, 1106, 1841, 1358>>>>,
         <<-2, <<299, 77, 357, 1117, 159>>>>, <<-2, <<293, 1329, 1046, 174, 1692>>>>,
         <<-2, <<288, 1109, 1423, 1968, 341>>>>, <<-2, <<283, 1417, 674, 268, 407>>>>,
         <<-2, <<279, 161, 1071, 2047, 617>>>>, <<-2, <<274, 1400, 241, 1341, 808>>>>,
         <<-2, <<270, 1003, 64, 1725, 18>>>>, <<-2, <<266, 987, 1470, 1849, 210>>>>,
         <<-2, <<262, 1326, 1451, 167, 724>>>>, <<-2, <<258, 1995, 457, 263, 1298>>>>,
         <<-3, <<510, 1845, 1405, 679, 980>>>>, <<-3, <<504, 274, 933, 1496, 904>>>>,
         <<-3, <<497, 1287, 1535, 1818, 1172>>>>, <<-3, <<491, 755, 1682, 380, 381>>>>,
         <<-3, <<485, 695, 1683, 1731, 1755>>>>, <<-3, <<479, 1079, 1004, 1929, 148>>>>,
         <<-3, <<473, 1880, 1800, 1563, 240>>>>, <<-3, <<468, 1028, 238, 592, 1134>>>>,
         <<-3, <<463, 547, 404, 1218, 1557>>>>, <<-3, <<458, 417, 1642, 1365, 761>>>>,
         <<-3, <<453, 621, 267, 983, 1760>>>>, <<-3, <<448, 1139, 1560, 651, 1263>>>>,
         <<-3, <<443, 1957, 1076, 451, 1932>>>>, <<-3, <<439, 1011, 796, 507, 1703>>>>,
         <<-3, <<435, 335, 728, 1756, 400>>>>, <<-3, <<430, 1964, 773, 500, 1289>>>>,
         <<-3, <<426, 1790, 553, 1919, 1323>>>>, <<-3, <<422, 1849, 1320, 656, 1855>>>>,
         <<-3, <<419, 83, 1717, 153, 776>>>>, <<-3, <<415, 578, 1759, 1623, 396>>>>,
         <<-3, <<411, 1277, 678, 541, 1511>>>>, <<-3, <<408, 122, 914, 244, 286>>>>,
         <<-3, <<404, 1201, 1887, 1375, 1332>>>>, <<-3, <<401, 411, 1964, 2006, 94>>>>,
         <<-3, <<397, 1841, 432, 465, 1002>>>>, <<-3, <<394, 1386, 1524, 1369, 1594>>>>,
         <<-3, <<391, 1090, 29, 915, 1573>>>>, <<-3, <<388, 944, 1709, 1419, 923>>>> >>,
      << \* parent_visit_count = 11
         <<0, <<396, 859, 514, 1161, 165>>>>, <<0, <<280, 636, 1717, 1701, 819>>>>,
         <<-1, <<457, 1527, 1130, 1497, 364>>>>, <<-1, <<396, 859, 514, 1161, 165>>>>,
         <<-1, <<354, 1164, 296, 1980, 600>>>>, <<-1, <<323, 1382, 1709, 1438, 673>>>>,
         <<-1, <<299, 1361, 1956, 1966, 134>>>>, <<-1, <<280, 636, 1717, 1701, 819>>>>,
         <<-1, <<264, 572, 1708, 774, 110>>>>, <<-2, <<501, 891, 1779, 50, 785>>>>,
         <<-2, <<478, 204, 1528, 346, 23>>>>, <<-2, <<457, 1527, 1130, 1497, 364>>>>,
         <<-2, <<439, 1613, 1734, 2006, 1939>>>>, <<-2, <<423, 1618, 1227, 968, 1216>>>>,
         <<-2, <<409, 860, 1825, 1969, 750>>>>, <<-2, <<396, 859, 514, 1161, 165>>>>,
         <<-2, <<384, 1194, 1894, 471, 818>>>>, <<-2, <<373, 1531, 1607, 1585, 1774>>>>,
         <<-2, <<363, 1596, 993, 603, 320>>>>, <<-2, <<354, 1164, 296, 1980, 600>>>>,
         <<-2, <<346, 47, 1709, 1712, 32>>>>, <<-2, <<338, 138, 1470, 1837, 999>>>>,
         <<-2, <<330, 1304, 198, 290, 700>>>>, <<-2, <<323, 1382, 1709, 1438, 673>>>>,
         <<-2, <<317, 277, 1640, 928, 1770>>>>, <<-2, <<310, 2001, 143, 1761, 1942>>>>,
         <<-2, <<305, 335, 1436, 998, 243>>>>, <<-2, <<299, 1361, 1956, 1966, 134>>>>,
         <<-2, <<294, 927, 1751, 524, 720>>>>, <<-2, <<289, 1032, 19, 1415, 1880>>>>,
         <<-2, <<284, 1630, 1334, 423, 77>>>>, <<-2, <<280, 636, 1717, 1701, 819>>>>,
         <<-2, <<276, 63, 1622, 794, 412>>>>, <<-2, <<271, 1928, 695, 1252, 40>>>>,
         <<-2, <<268, 58, 920, 496, 1975>>>>, <<-2, <<264, 572, 1708, 774, 110>>>>,
         <<-2, <<260, 1400, 1261, 29, 1651>>>>, <<-2, <<257, 473, 75, 1888, 1480>>>>,
         <<-3, <<507, 1686, 886, 29, 189>>>>, <<-3, <<501, 891, 1779, 50, 785>>>>,
         <<-3, <<495, 578, 1847, 1693, 992>>>>, <<-3, <<489, 718, 1418, 1512, 6>>>>,
         <<-3, <<483, 1284, 1558, 779, 921>>>>, <<-3, <<478, 204, 1528, 346, 23>>>>,
         <<-3, <<472, 1552, 395, 1957, 1483>>>>, <<-3, <<467, 1210, 748, 288, 1278>>>>,
         <<-3, <<462, 1208, 158, 1944, 255>>>>, <<-3, <<457, 1527, 1130, 1497, 364>>>>,
         <<-3, <<453, 104, 588, 156, 1358>>>>, <<-3, <<448, 1018, 1929, 674, 491>>>>,
         <<-3, <<444, 161, 479, 1497, 969>>>>, <<-3, <<439, 1613, 1734, 2006, 1939>>>>,
         <<-3, <<435, 1268, 712, 892, 1521>>>>, <<-3, <<431, 1161, 231, 1235, 214>>>>,
         <<-3, <<427, 1281, 537, 1704, 1824>>>>, <<-3, <<423, 1618, 1227, 968, 1216>>>>,
         <<-3, <<420, 115, 1136, 1903, 356>>>>, <<-3, <<416, 859, 290, 587, 1437>>>>,
         <<-3, <<412, 1792, 1856, 685, 591>>>>, <<-3, <<409, 860, 1825, 1969, 750>>>>,
         <<-3, <<406, 103, 1225, 70, 1887>>>>, <<-3, <<402, 1561, 1949, 1978, 483>>>>,
         <<-3, <<399, 1133, 561, 573, 862>>>>, <<-3, <<396, 859, 514, 1161, 165>>>> >>,
      << \* parent_visit_count = 12
         <<0, <<403, 1121, 1911, 662, 895>>>>, <<0, <<285, 719, 1363, 1270, 753>>>>,
         <<-1, <<465, 2000, 1347, 1579, 506>>>>, <<-1, <<403, 1121, 1911, 662, 895>>>>,
         <<-1, <<360, 1933, 1235, 497, 639>>>>, <<-1, <<329, 1014, 1246, 1528, 620>>>>,
         <<-1, <<305, 109, 1068, 1541, 1605>>>>, <<-1, <<285, 719, 1363, 1270, 753>>>>,
         <<-1, <<269, 65, 591, 1124, 597>>>>, <<-2, <<510, 925, 1849, 954, 1282>>>>,
         <<-2, <<486, 1427, 858, 832, 1602>>>>, <<-2, <<465, 2000, 1347, 1579, 506>>>>,
         <<-2, <<447, 1425, 1291, 1418, 1594>>>>, <<-2, <<431, 841, 505, 1288, 349>>>>,
         <<-2, <<416, 1602, 707, 1321, 485>>>>, <<-2, <<403, 1121, 1911, 662, 895>>>>,
         <<-2, <<391, 1021, 1488, 916, 1841>>>>, <<-2, <<380, 959, 1135, 1011, 322>>>>,
         <<-2, <<370, 657, 316, 409, 1580>>>>, <<-2, <<360, 1933, 1235, 497, 639>>>>,
         <<-2, <<352, 502, 1247, 1459, 621>>>>, <<-2, <<344, 300, 1056, 1828, 2028>>>>,
         <<-2, <<336, 1192, 489, 2016, 234>>>>, <<-2, <<329, 1014, 1246, 1528, 620>>>>,
         <<-2, <<322, 1716, 1529, 120, 716>>>>, <<-2, <<316, 1165, 447, 1502, 1225>>>>,
         <<-2, <<310, 1333, 1581, 370, 337>>>>, <<-2, <<305, 109, 1068, 1541, 1605>>>>,
         <<-2, <<299, 1531, 990, 2005, 1521>>>>, <<-2, <<294, 1453, 777, 626, 1039>>>>,
         <<-2, <<289, 1878, 1339, 1786, 416>>>>, <<-2, <<285, 719, 1363, 1270, 753>>>>,
         <<-2, <<280, 2037, 19, 1181, 100>>>>, <<-2, <<276, 1702, 1951, 1073, 749>>>>,
         <<-2, <<272, 1736, 1965, 1828, 928>>>>, <<-2, <<269, 65, 591, 1124, 597>>>>,
         <<-2, <<265, 760, 1330, 1969, 130>>>>, <<-2, <<261, 1753, 1869, 1019, 17>>>>,
         <<-2, <<258, 977, 1753, 1459, 1601>>>>, <<-3, <<510, 925, 1849, 954, 1282>>>>,
         <<-3, <<504, 386, 718, 1586, 1038>>>>, <<-3, <<498, 307, 1427, 1171, 1632>>>>,
         <<-3, <<492, 662, 2019, 714, 822>>>>, <<-3, <<486, 1427, 858, 832, 1602>>>>,
         <<-3, <<481, 530, 281, 1345, 1535>>>>, <<-3, <<475, 2046, 63, 1695, 651>>>>,
         <<-3, <<470, 1859, 1168, 1332, 483>>>>, <<-3, <<465, 2000, 1347, 1579, 506>>>>,
         <<-3, <<461, 404, 1014, 171, 1901>>>>, <<-3, <<456, 1151, 952, 2032, 1206>>>>,
         <<-3, <<452, 131, 59, 1562, 793>>>>, <<-3, <<447, 1425, 1291, 1418, 1594>>>>,
         <<-3, <<443, 926, 1256, 579, 2010>>>>, <<-3, <<439, 670, 296, 2037, 1509>>>>,
         <<-3, <<435, 645, 306, 1026, 940>>>>, <<-3, <<431, 841, 505, 1288, 349>>>>,
         <<-3, <<427, 1248, 1426, 865, 1527>>>>, <<-3, <<423, 1858, 713, 1974, 218>>>>,
         <<-3, <<420, 613, 1225, 1551, 1600>>>>, <<-3, <<416, 1602, 707, 1321, 485>>>>,
         <<-3, <<413, 720, 1957, 673, 1223>>>>, <<-3, <<410, 10, 466, 1456, 587>>>>,
         <<-3, <<406, 1511, 742, 690, 774>>>>, <<-3, <<403, 1121, 1911, 662, 895>>>> >>,
      << \* parent_visit_count = 13
         <<0, <<409, 2039, 637, 551, 1401>>>>, <<0, <<289, 1865, 569, 1097, 1617>>>>,
         <<-1, <<473, 864, 1874, 112, 182>>>>, <<-1, <<409, 2039, 637, 551, 1401>>>>,
         <<-1, <<366, 1456, 1745, 667, 1980>>>>, <<-1, <<334, 1556, 1545, 1158, 700>>>>,
         <<-1, <<309, 1899, 1739, 549, 1568>>>>, <<-1, <<289, 1865, 569, 1097, 1617>>>>,
         <<-1, <<273, 676, 1790, 367, 1616>>>>, <<-1, <<259, 622, 1568, 890, 1282>>>>,
         <<-2, <<494, 969, 1442, 131, 1477>>>>, <<-2, <<473, 864, 1874, 112, 182>>>>,
         <<-2, <<454, 1739, 1397, 36, 1934>>>>, <<-2, <<438, 622, 798, 143, 341>>>>,
         <<-2, <<423, 904, 1640, 1685, 1222>>>>, <<-2, <<409, 2039, 637, 551, 1401>>>>,
         <<-2, <<397, 1544, 1689, 1713, 1007>>>>, <<-2, <<386, 1121, 1442, 98, 790>>>>,
         <<-2, <<376, 487, 492, 46, 927>>>>, <<-2, <<366, 1456, 1745, 667, 1980>>>>,
         <<-2, <<357, 1789, 426, 210, 481>>>>, <<-2, <<349, 1322, 205, 328, 968>>>>,
         <<-2, <<341, 1966, 585, 626, 423>>>>, <<-2, <<334, 1556, 1545, 1158, 700>>>>,
         <<-2, <<327, 2041, 100, 441, 711>>>>, <<-2, <<321, 1284, 756, 792, 2035>>>>,
         <<-2, <<315, 1259, 566, 1440, 122>>>>, <<-2, <<309, 1899, 1739, 549, 1568>>>>,
         <<-2, <<304, 1100, 393, 1862, 1718>>>>, <<-2, <<299, 857, 458, 1629, 426>>>>,
         <<-2, <<294, 1125, 1388, 196, 1196>>>>, <<-2, <<289, 1865, 569, 1097, 1617>>>>,
         <<-2, <<285, 992, 111, 1196, 1806>>>>, <<-2, <<281, 521, 1571, 1298, 498>>>>,
         <<-2, <<277, 425, 870, 671, 1137>>>>, <<-2, <<273, 676, 1790, 367, 1616>>>>,
         <<-2, <<269, 1252, 927, 1107, 103>>>>, <<-2, <<266, 82, 1420, 676, 1868>>>>,
         <<-2, <<262, 1244, 138, 243, 1083>>>>, <<-2, <<259, 622, 1568, 890, 1282>>>>,
         <<-2, <<256, 250, 1043, 1602, 598>>>>, <<-3, <<506, 224, 1575, 1668, 45>>>>,
         <<-3, <<500, 389, 811, 90, 2035>>>>, <<-3, <<494, 969, 1442, 131, 1477>>>>,
         <<-3, <<488, 1942, 961, 1573, 593>>>>, <<-3, <<483, 1238, 502, 198, 996>>>>,
         <<-3, <<478, 885, 387, 1467, 2023>>>>, <<-3, <<473, 864, 1874, 112, 182>>>>,
         <<-3, <<468, 1160, 728, 630, 1016>>>>, <<-3, <<463, 1755, 1320, 1756, 949>>>>,
         <<-3, <<459, 588, 23, 396, 2033>>>>, <<-3, <<454, 1739, 1397, 36, 1934>>>>,
         <<-3, <<450, 1101, 1635, 1372, 1522>>>>, <<-3, <<446, 710, 695, 861, 1616>>>>,
         <<-3, <<442, 554, 106, 1035, 706>>>>, <<-3, <<438, 622, 798, 143, 341>>>>,
         <<-3, <<434, 905, 935, 875, 191>>>>, <<-3, <<430, 1393, 1960, 504, 1189>>>>,
         <<-3, <<427, 31, 304, 937, 1328>>>>, <<-3, <<423, 904, 1640, 1685, 1222>>>>,
         <<-3, <<419, 1959, 325, 487, 484>>>>, <<-3, <<416, 1138, 1853, 1960, 1976>>>>,
         <<-3, <<413, 485, 271, 50, 726>>>>, <<-3, <<409, 2039, 637, 551, 1401>>>> >>,
      << \* parent_visit_count = 14
         <<0, <<415, 1795, 136, 1788, 1523>>>>, <<0, <<294, 141, 1022, 1563, 720>>>>,
         <<-1, <<480, 435, 1733, 109, 582>>>>, <<-1, <<415, 1795, 136, 1788, 1523>>>>,
         <<-1, <<371, 1989, 235, 56, 429>>>>, <<-1, <<339, 1150, 901, 218, 1407>>>>,
         <<-1, <<314, 764, 149, 104, 1662>>>>, <<-1, <<294, 141, 1022, 1563, 720>>>>,
         <<-1, <<277, 514, 91, 509, 1698>>>>, <<-1, <<263, 47, 1854, 1935, 69>>>>,
         <<-2, <<501, 1159, 40, 1930, 813>>>>, <<-2, <<480, 435, 1733, 109, 582>>>>,
         <<-2, <<461, 765, 60, 433, 664>>>>, <<-2, <<444, 1209, 1446, 59, 1637>>>>,
         <<-2, <<429, 1055, 1102, 1940, 686>>>>, <<-2, <<415, 1795, 136, 1788, 1523>>>>,
         <<-2, <<403, 940, 2015, 1937, 65>>>>, <<-2, <<392, 188, 1363, 1401, 1643>>>>,
         <<-2, <<381, 1299, 713, 1172, 1838>>>>, <<-2, <<371, 1989, 235, 56, 429>>>>,
         <<-2, <<363, 13, 1761, 10, 927>>>>, <<-2, <<354, 1353, 101, 847, 541>>>>,
         <<-2, <<346, 1771, 967, 1043, 1614>>>>, <<-2, <<339, 1150, 901, 218, 1407>>>>,
         <<-2, <<332, 1436, 109, 1021, 809>>>>, <<-2, <<326, 492, 550, 126, 379>>>>,
         <<-2, <<320, 290, 1155, 755, 1070>>>>, <<-2, <<314, 764, 149, 104, 1662>>>>,
         <<-2, <<308, 1854, 142, 537, 5>>>>, <<-2, <<303, 1460, 1514, 1274, 1516>>>>,
         <<-2, <<298, 1586, 342, 1194, 1050>>>>, <<-2, <<294, 141, 1022, 1563, 720>>>>,
         <<-2, <<289, 1186, 510, 2022, 357>>>>, <<-2, <<285, 591, 1465, 1230, 1623>>>>,
         <<-2, <<281, 376, 1003, 1232, 1883>>>>, <<-2, <<277, 514, 91, 509, 1698>>>>,
         <<-2, <<273, 980, 773, 1672, 113>>>>, <<-2, <<269, 1753, 1462, 1229, 1209>>>>,
         <<-2, <<266, 766, 501, 1051, 988>>>>, <<-2, <<263, 47, 1854, 1935, 69>>>>,
         <<-2, <<259, 1630, 377, 402, 85>>>>, <<-2, <<256, 1401, 1949, 1852, 1676>>>>,
         <<-3, <<507, 746, 1311, 189, 419>>>>, <<-3, <<501, 1159, 40, 1930, 813>>>>,
         <<-3, <<495, 1969, 996, 74, 1937>>>>, <<-3, <<490, 1108, 582, 602, 907>>>>,
         <<-3, <<485, 603, 589, 1089, 1483>>>>, <<-3, <<480, 435, 1733, 109, 582>>>>,
         <<-3, <<475, 588, 1326, 1459, 277>>>>, <<-3, <<470, 1045, 1226, 1682, 334>>>>,
         <<-3, <<465, 1791, 1466, 1936, 544>>>>, <<-3, <<461, 765, 60, 433, 664>>>>,
         <<-3, <<457, 0, 1014, 472, 1553>>>>, <<-3, <<452, 1533, 1884, 291, 1193>>>>,
         <<-3, <<448, 1257, 1821, 1284, 853>>>>, <<-3, <<444, 1209, 1446, 59, 1637>>>>,
         <<-3, <<440, 1379, 679, 1983, 429>>>>, <<-3, <<436, 1757, 692, 79, 145>>>>,
         <<-3, <<433, 286, 1753, 747, 1385>>>>, <<-3, <<429, 1055, 1102, 1940, 686>>>>,
         <<-3, <<425, 2007, 1060, 1739, 518>>>>, <<-3, <<422, 1087, 764, 834, 1142>>>>,
         <<-3, <<419, 336, 198, 1505, 168>>>>, <<-3, <<415, 1795, 136, 1788, 1523>>>> >>,
      << \* parent_visit_count = 15
         <<0, <<421, 568, 884, 446, 1183>>>>, <<0, <<297, 1819, 134, 447, 382>>>>,
         <<-1, <<486, 920, 840, 348, 715>>>>, <<-1, <<421, 568, 884, 446, 1183>>>>,
         <<-1, <<376, 1642, 1434, 474, 1409>>>>, <<-1, <<343, 1990, 13, 1169, 1383>>>>,
         <<-1, <<318, 933, 1389, 2002, 1513>>>>, <<-1, <<297, 1819, 134, 447, 382>>>>,
         <<-1, <<280, 1744, 589, 980, 789>>>>, <<-1, <<266, 899, 1489, 486, 638>>>>,
         <<-2, <<508, 163, 1081, 806, 800>>>>, <<-2, <<486, 920, 840, 348, 715>>>>,
         <<-2, <<467, 748, 1048, 1084, 344>>>>, <<-2, <<450, 746, 1643, 1341, 1582>>>>,
         <<-2, <<435, 191, 1366, 487, 1496>>>>, <<-2, <<421, 568, 884, 446, 1183>>>>,
         <<-2, <<408, 1432, 173, 373, 95>>>>, <<-2, <<397, 377, 861, 1278, 1874>>>>,
         <<-2, <<386, 1209, 1951, 1615, 1505>>>>, <<-2, <<376, 1642, 1434, 474, 1409>>>>,
         <<-2, <<367, 1477, 21, 1974, 1826>>>>, <<-2, <<359, 546, 436, 1351, 1253>>>>,
         <<-2, <<351, 757, 590, 1787, 65>>>>, <<-2, <<343, 1990, 13, 1169, 1383>>>>,
         <<-2, <<337, 45, 297, 1586, 127>>>>, <<-2, <<330, 977, 1059, 169, 682>>>>,
         <<-2, <<324, 613, 1242, 1597, 1159>>>>, <<-2, <<318, 933, 1389, 2002, 1513>>>>,
         <<-2, <<312, 1878, 501, 1799, 414>>>>, <<-2, <<307, 1346, 1675, 1948, 592>>>>,
         <<-2, <<302, 1340, 1815, 803, 1404>>>>, <<-2, <<297, 1819, 134, 447, 382>>>>,
         <<-2, <<293, 696, 809, 1635, 668>>>>, <<-2, <<288, 2035, 1534, 1393, 1406>>>>,
         <<-2, <<284, 1711, 691, 1401, 596>>>>, <<-2, <<280, 1744, 589, 980, 789>>>>,
         <<-2, <<277, 62, 586, 1962, 175>>>>, <<-2, <<273, 739, 564, 477, 1884>>>>,
         <<-2, <<269, 1707, 386, 722, 972>>>>, <<-2, <<266, 899, 1489, 486, 638>>>>,
         <<-2, <<263, 348, 335, 2033, 1424>>>>, <<-2, <<260, 37, 357, 1808, 1736>>>>,
         <<-2, <<256, 2000, 1411, 1961, 96>>>>, <<-3, <<508, 163, 1081, 806, 800>>>>,
         <<-3, <<502, 824, 1912, 632, 1879>>>>, <<-3, <<496, 1867, 1143, 1944, 1019>>>>,
         <<-3, <<491, 1223, 30, 1688, 904>>>>, <<-3, <<486, 920, 840, 348, 715>>>>,
         <<-3, <<481, 942, 425, 802, 1937>>>>, <<-3, <<476, 1272, 214, 1534, 1430>>>>,
         <<-3, <<471, 1894, 1891, 568, 894>>>>, <<-3, <<467, 748, 1048, 1084, 344>>>>,
         <<-3, <<462, 1915, 1347, 404, 1601>>>>, <<-3, <<458, 1288, 18, 194, 479>>>>,
         <<-3, <<454, 902, 5, 634, 928>>>>, <<-3, <<450, 746, 1643, 1341, 1582>>>>,
         <<-3, <<446, 812, 492, 1574, 642>>>>, <<-3, <<442, 1088, 1566, 909, 429>>>>,
         <<-3, <<438, 1567, 803, 1940, 1975>>>>, <<-3, <<435, 191, 1366, 487, 1496>>>>,
         <<-3, <<431, 1049, 1268, 267, 12>>>>, <<-3, <<428, 37, 1497, 1175, 407>>>>,
         <<-3, <<424, 1244, 1853, 622, 651>>>>, <<-3, <<421, 568, 884, 446, 1183>>>> >>,
      << \* parent_visit_count = 16
         <<0, <<426, 548, 1605, 1081, 1351>>>>, <<0, <<301, 853, 1937, 351, 1091>>>>,
         <<-1, <<492, 433, 1753, 1982, 241>>>>, <<-1, <<426, 548, 1605, 1081, 1351>>>>,
         <<-1, <<381, 544, 125, 774, 303>>>>, <<-1, <<348, 94, 1821, 399, 1839>>>>,
         <<-1, <<322, 467, 1103, 813, 2037>>>>, <<-1, <<301, 853, 1937, 351, 1091>>>>,
         <<-1, <<284, 365, 1753, 38, 901>>>>, <<-1, <<269, 1219, 1321, 1832, 212>>>>,
         <<-1, <<257, 100, 1778, 491, 894>>>>, <<-2, <<492, 433, 1753, 1982, 241>>>>,
         <<-2, <<472, 1846, 1996, 469, 1215>>>>, <<-2, <<455, 1432, 1676, 1241, 950>>>>,
         <<-2, <<440, 507, 412, 1268, 89>>>>, <<-2, <<426, 548, 1605, 1081, 1351>>>>,
         <<-2, <<413, 1107, 578, 1563, 1645>>>>, <<-2, <<401, 1821, 534, 1834, 89>>>>,
         <<-2, <<391, 348, 1620, 1719, 32>>>>, <<-2, <<381, 544, 125, 774, 303>>>>,
         <<-2, <<372, 158, 134, 315, 827>>>>, <<-2, <<363, 1070, 325, 692, 1223>>>>,
         <<-2, <<355, 1089, 1334, 622, 920>>>>, <<-2, <<348, 94, 1821, 399, 1839>>>>,
         <<-2, <<341, 29, 874, 1684, 1081>>>>, <<-2, <<334, 803, 43, 120, 818>>>>,
         <<-2, <<328, 289, 486, 1321, 844>>>>, <<-2, <<322, 467, 1103, 813, 2037>>>>,
         <<-2, <<316, 1277, 1499, 663, 911>>>>, <<-2, <<311, 618, 1450, 1077, 576>>>>,
         <<-2, <<306, 491, 827, 1635, 484>>>>, <<-2, <<301, 853, 1937, 351, 1091>>>>,
         <<-2, <<296, 1668, 1915, 706, 913>>>>, <<-2, <<292, 854, 1747, 409, 1724>>>>,
         <<-2, <<288, 429, 1140, 1739, 95>>>>, <<-2, <<284, 365, 1753, 38, 901>>>>,
         <<-2, <<280, 639, 304, 1555, 1289>>>>, <<-2, <<276, 1227, 237, 70, 115>>>>,
         <<-2, <<273, 61, 928, 173, 597>>>>, <<-2, <<269, 1219, 1321, 1832, 212>>>>,
         <<-2, <<266, 588, 1571, 1569, 1213>>>>, <<-2, <<263, 201, 641, 376, 928>>>>,
         <<-2, <<260, 43, 93, 1756, 834>>>>, <<-2, <<257, 100, 1778, 491, 894>>>>,
         <<-3, <<508, 725, 849, 1714, 1770>>>>, <<-3, <<502, 1634, 1696, 899, 50>>>>,
         <<-3, <<497, 861, 712, 383, 517>>>>, <<-3, <<492, 433, 1753, 1982, 241>>>>,
         <<-3, <<487, 334, 1249, 1528, 1544>>>>, <<-3, <<482, 547, 232, 562, 927>>>>,
         <<-3, <<477, 1056, 16, 735, 191>>>>, <<-3, <<472, 1846, 1996, 469, 1215>>>>,
         <<-3, <<468, 858, 1320, 75, 1748>>>>, <<-3, <<464, 126, 1062, 1898, 1087>>>>,
         <<-3, <<459, 1686, 1840, 979, 2018>>>>, <<-3, <<455, 1432, 1676, 1241, 950>>>>,
         <<-3, <<451, 1401, 2028, 542, 439>>>>, <<-3, <<447, 1584, 1533, 1056, 1781>>>>,
         <<-3, <<443, 1972, 9, 1436, 524>>>>, <<-3, <<440, 507, 412, 1268, 89>>>>,
         <<-3, <<436, 1278, 563, 1527, 1304>>>>, <<-3, <<433, 181, 1268, 1333, 934>>>>,
         <<-3, <<429, 1306, 105, 1767, 2034>>>>, <<-3, <<426, 548, 1605, 1081, 1351>>>> >>,
      << \* parent_visit_count = 17
         <<0, <<430, 1849, 1066, 318, 288>>>>, <<0, <<304, 1422, 664, 469, 1763>>>>,
         <<-1, <<497, 1155, 255, 85, 164>>>>, <<-1, <<430, 1849, 1066, 318, 288>>>>,
         <<-1, <<385, 842, 1275, 1778, 54>>>>, <<-1, <<351, 1701, 1384, 2012, 1382>>>>,
         <<-1, <<325, 1499, 764, 504, 874>>>>, <<-1, <<304, 1422, 664, 469, 1763>>>>,
         <<-1, <<287, 550, 710, 1577, 875>>>>, <<-1, <<272, 1079, 776, 1462, 569>>>>,
         <<-1, <<259, 1729, 417, 1009, 747>>>>, <<-2, <<497, 1155, 255, 85, 164>>>>,
         <<-2, <<478, 90, 451, 1065, 1487>>>>, <<-2, <<460, 1340, 2009, 111, 546>>>>,
         <<-2, <<445, 71, 527, 1629, 1913>>>>, <<-2, <<430, 1849, 1066, 318, 288>>>>,
         <<-2, <<418, 76, 1208, 30, 1613>>>>, <<-2, <<406, 531, 202, 1991, 1668>>>>,
         <<-2, <<395, 867, 1892, 683, 1378>>>>, <<-2, <<385, 842, 1275, 1778, 54>>>>,
         <<-2, <<376, 252, 10, 1953, 974>>>>, <<-2, <<367, 973, 1212, 260, 1383>>>>,
         <<-2, <<359, 815, 289, 296, 1651>>>>, <<-2, <<351, 1701, 1384, 2012, 1382>>>>,
         <<-2, <<344, 1479, 1262, 1073, 1459>>>>, <<-2, <<338, 57, 1507, 1960, 1061>>>>,
         <<-2, <<331, 1452, 1535, 739, 792>>>>, <<-2, <<325, 1499, 764, 504, 874>>>>,
         <<-2, <<320, 136, 1556, 353, 1409>>>>, <<-2, <<314, 1407, 456, 1081, 1220>>>>,
         <<-2, <<309, 1167, 384, 82, 173>>>>, <<-2, <<304, 1422, 664, 469, 1763>>>>,
         <<-2, <<300, 86, 1696, 1970, 17>>>>, <<-2, <<295, 1222, 1672, 1369, 959>>>>,
         <<-2, <<291, 703, 1676, 420, 1534>>>>, <<-2, <<287, 550, 710, 1577, 875>>>>,
         <<-2, <<283, 737, 1093, 1152, 975>>>>, <<-2, <<279, 1242, 1672, 1015, 892>>>>,
         <<-2, <<275, 2045, 1373, 1356, 1218>>>>, <<-2, <<272, 1079, 776, 1462, 569>>>>,
         <<-2, <<269, 374, 1706, 81, 1444>>>>, <<-2, <<265, 1964, 731, 1662, 1317>>>>,
         <<-2, <<262, 1737, 1148, 1439, 841>>>>, <<-2, <<259, 1729, 417, 1009, 747>>>>,
         <<-2, <<256, 1927, 167, 1868, 36>>>>, <<-3, <<508, 543, 1739, 2043, 2047>>>>,
         <<-3, <<502, 1698, 1252, 30, 507>>>>, <<-3, <<497, 1155, 255, 85, 164>>>>,
         <<-3, <<492, 943, 925, 1826, 915>>>>, <<-3, <<487, 1046, 1881, 1980, 1182>>>>,
         <<-3, <<482, 1450, 0, 123, 502>>>>, <<-3, <<478, 90, 451, 1065, 1487>>>>,
         <<-3, <<473, 1050, 134, 1592, 1646>>>>, <<-3, <<469, 220, 1846, 1318, 478>>>>,
         <<-3, <<464, 1686, 1846, 323, 1858>>>>, <<-3, <<460, 1340, 2009, 111, 546>>>>,
         <<-3, <<456, 1220, 1515, 339, 1600>>>>, <<-3, <<452, 1316, 835, 656, 1492>>>>,
         <<-3, <<448, 1618, 1632, 919, 902>>>>, <<-3, <<445, 71, 527, 1629, 1913>>>>,
         <<-3, <<441, 761, 1307, 538, 1824>>>>, <<-3, <<437, 1634, 511, 50, 514>>>>,
         <<-3, <<434, 633, 1701, 1355, 482>>>>, <<-3, <<430, 1849, 1066, 318, 288>>>> >>,
      << \* parent_visit_count = 18
         <<0, <<435, 466, 1892, 1135, 1351>>>>, <<0, <<307, 1541, 930, 1336, 38>>>>,
         <<-1, <<502, 1142, 1583, 798, 1703>>>>, <<-1, <<435, 466, 1892, 1135, 1351>>>>,
         <<-1, <<389, 572, 1895, 986, 1147>>>>, <<-1, <<355, 741, 1466, 532, 306>>>>,
         <<-1, <<329, 2, 1926, 1850, 870>>>>, <<-1, <<307, 1541, 930, 1336, 38>>>>,
         <<-1, <<290, 311, 579, 74, 901>>>>, <<-1, <<275, 537, 600, 582, 281>>>>,
         <<-1, <<262, 926, 858, 819, 355>>>>, <<-2, <<502, 1142, 1583, 798, 1703>>>>,
         <<-2, <<482, 1724, 1284, 1894, 1071>>>>, <<-2, <<465, 569, 1932, 1168, 898>>>>,
         <<-2, <<449, 1027, 296, 823, 436>>>>, <<-2, <<435, 466, 1892, 1135, 1351>>>>,
         <<-2, <<422, 477, 1092, 1002, 1078>>>>, <<-2, <<410, 689, 1923, 1098, 1416>>>>,
         <<-2, <<399, 804, 71, 980, 323>>>>, <<-2, <<389, 572, 1895, 986, 1147>>>>,
         <<-2, <<379, 1839, 780, 509, 616>>>>, <<-2, <<371, 335, 432, 81, 1709>>>>,
         <<-2, <<363, 10, 1487, 1367, 726>>>>, <<-2, <<355, 741, 1466, 532, 306>>>>,
         <<-2, <<348, 373, 1104, 908, 1081>>>>, <<-2, <<341, 862, 113, 463, 1367>>>>,
         <<-2, <<335, 79, 372, 1897, 1818>>>>, <<-2, <<329, 2, 1926, 1850, 870>>>>,
         <<-2, <<323, 571, 1789, 2010, 806>>>>, <<-2, <<317, 1731, 1547, 2032, 1552>>>>,
         <<-2, <<312, 1386, 1093, 1519, 908>>>>, <<-2, <<307, 1541, 930, 1336, 38>>>>,
         <<-2, <<303, 110, 681, 1016, 498>>>>, <<-2, <<298, 1154, 1936, 435, 1146>>>>,
         <<-2, <<294, 548, 1057, 670, 506>>>>, <<-2, <<290, 311, 579, 74, 901>>>>,
         <<-2, <<286, 418, 259, 727, 2018>>>>, <<-2, <<282, 846, 530, 848, 1548>>>>,
         <<-2, <<278, 1574, 1944, 857, 1006>>>>, <<-2, <<275, 537, 600, 582, 281>>>>,
         <<-2, <<271, 1812, 18, 1461, 448>>>>, <<-2, <<268, 1287, 543, 1387, 462>>>>,
         <<-2, <<265, 996, 1078, 61, 421>>>>, <<-2, <<262, 926, 858, 819, 355>>>>,
         <<-2, <<259, 1064, 1263, 1340, 765>>>>, <<-2, <<256, 1399, 1508, 331, 1037>>>>,
         <<-3, <<507, 1794, 1007, 1441, 768>>>>, <<-3, <<502, 1142, 1583, 798, 1703>>>>,
         <<-3, <<497, 826, 407, 1005, 666>>>>, <<-3, <<492, 827, 1898, 1318, 879>>>>,
         <<-3, <<487, 1132, 566, 1061, 763>>>>, <<-3, <<482, 1724, 1284, 1894, 1071>>>>,
         <<-3, <<478, 543, 674, 1021, 1992>>>>, <<-3, <<473, 1671, 1272, 709, 1091>>>>,
         <<-3, <<469, 1001, 1142, 830, 1126>>>>, <<-3, <<465, 569, 1932, 1168, 898>>>>,
         <<-3, <<461, 366, 560, 1820, 678>>>>, <<-3, <<457, 380, 1393, 736, 247>>>>,
         <<-3, <<453, 603, 1808, 99, 1943>>>>, <<-3, <<449, 1027, 296, 823, 436>>>>,
         <<-3, <<445, 1642, 476, 1566, 39>>>>, <<-3, <<442, 393, 779, 516, 1590>>>>,
         <<-3, <<438, 1369, 521, 419, 478>>>>, <<-3, <<435, 466, 1892, 1135, 1351>>>> >>,
      << \* parent_visit_count = 19
         <<0, <<439, 573, 111, 402, 154>>>>, <<0, <<310, 1265, 242, 1631, 586>>>>,
         <<-1, <<507, 484, 1287, 531, 1649>>>>, <<-1, <<439, 573, 111, 402, 154>>>>,
         <<-1, <<392, 1850, 2045, 1153, 543>>>>, <<-1, <<358, 1373, 227, 170, 834>>>>,
         <<-1, <<332, 131, 1510, 1590, 1913>>>>, <<-1, <<310, 1265, 242, 1631, 586>>>>,
         <<-1, <<292, 1747, 756, 1633, 785>>>>, <<-1, <<277, 1689, 1006, 1026, 908>>>>,
         <<-1, <<264, 1834, 778, 183, 403>>>>, <<-2, <<507, 484, 1287, 531, 1649>>>>,
         <<-2, <<487, 690, 1180, 541, 1865>>>>, <<-2, <<469, 1249, 36, 1623, 144>>>>,
         <<-2, <<453, 1405, 853, 998, 1800>>>>, <<-2, <<439, 573, 111, 402, 154>>>>,
         <<-2, <<426, 335, 1847, 1517, 540>>>>, <<-2, <<414, 321, 1006, 809, 1465>>>>,
         <<-2, <<403, 226, 1887, 124, 1949>>>>, <<-2, <<392, 1850, 2045, 1153, 543>>>>,
         <<-2, <<383, 890, 1193, 1336, 95>>>>, <<-2, <<374, 1267, 1802, 1187, 1356>>>>,
         <<-2, <<366, 787, 1731, 871, 1973>>>>, <<-2, <<358, 1373, 227, 170, 834>>>>,
         <<-2, <<351, 868, 88, 1960, 123>>>>, <<-2, <<344, 1227, 1319, 566, 1876>>>>,
         <<-2, <<338, 323, 175, 1037, 416>>>>, <<-2, <<332, 131, 1510, 1590, 1913>>>>,
         <<-2, <<326, 591, 1168, 310, 1196>>>>, <<-2, <<320, 1647, 1747, 1201, 1287>>>>,
         <<-2, <<315, 1204, 177, 1461, 1189>>>>, <<-2, <<310, 1265, 242, 1631, 586>>>>,
         <<-2, <<305, 1792, 837, 1190, 1481>>>>, <<-2, <<301, 703, 851, 1010, 869>>>>,
         <<-2, <<297, 15, 156, 564, 180>>>>, <<-2, <<292, 1747, 756, 1633, 785>>>>,
         <<-2, <<288, 1778, 1932, 344, 1262>>>>, <<-2, <<285, 86, 1632, 37, 1879>>>>,
         <<-2, <<281, 746, 13, 624, 1420>>>>, <<-2, <<277, 1689, 1006, 1026, 908>>>>,
         <<-2, <<274, 851, 1658, 1697, 510>>>>, <<-2, <<271, 264, 2012, 823, 1226>>>>,
         <<-2, <<267, 1962, 692, 1914, 2020>>>>, <<-2, <<264, 1834, 778, 183, 403>>>>,
         <<-2, <<261, 1916, 1363, 1451, 1044>>>>, <<-2, <<259, 149, 1447, 245, 2>>>>,
         <<-2, <<256, 618, 1787, 943, 661>>>>, <<-3, <<507, 484, 1287, 531, 1649>>>>,
         <<-3, <<502, 69, 1589, 1922, 761>>>>, <<-3, <<496, 2024, 388, 971, 1348>>>>,
         <<-3, <<492, 188, 85, 1153, 1345>>>>, <<-3, <<487, 690, 1180, 541, 1865>>>>,
         <<-3, <<482, 1470, 32, 1962, 1657>>>>, <<-3, <<478, 465, 985, 909, 1795>>>>,
         <<-3, <<473, 1760, 1873, 1860, 1095>>>>, <<-3, <<469, 1249, 36, 1623, 144>>>>,
         <<-3, <<465, 967, 383, 1753, 1991>>>>, <<-3, <<461, 905, 948, 1947, 1735>>>>,
         <<-3, <<457, 1054, 981, 418, 1037>>>>, <<-3, <<453, 1405, 853, 998, 1800>>>>,
         <<-3, <<449, 1949, 1979, 349, 1906>>>>, <<-3, <<446, 632, 592, 595, 1627>>>>,
         <<-3, <<442, 1540, 2014, 755, 1868>>>>, <<-3, <<439, 573, 111, 402, 154>>>> >>,
      << \* parent_visit_count = 20
         <<0, <<443, 183, 631, 303, 665>>>>, <<0, <<313, 638, 297, 681, 839>>>>,
         <<-1, <<511, 1301, 1833, 1191, 1764>>>>, <<-1, <<443, 183, 631, 303, 665>>>>,
         <<-1, <<396, 637, 1119, 1875, 1198>>>>, <<-1, <<361, 1599, 1278, 1995, 1280>>>>,
         <<-1, <<334, 1933, 1407, 949, 1204>>>>, <<-1, <<313, 638, 297, 681, 839>>>>,
         <<-1, <<295, 804, 1786, 202, 443>>>>, <<-1, <<280, 480, 143, 1098, 919>>>>,
         <<-1, <<267, 395, 647, 529, 1902>>>>, <<-2, <<511, 1301, 1833, 1191, 1764>>>>,
         <<-2, <<491, 1154, 818, 1704, 1898>>>>, <<-2, <<473, 1397, 2003, 785, 1933>>>>,
         <<-2, <<457, 1271, 1126, 409, 151>>>>, <<-2, <<443, 183, 631, 303, 665>>>>,
         <<-2, <<429, 1761, 410, 463, 424>>>>, <<-2, <<417, 1533, 1079, 225, 1801>>>>,
         <<-2, <<406, 1242, 1557, 1526, 1359>>>>, <<-2, <<396, 637, 1119, 1875, 1198>>>>,
         <<-2, <<386, 1556, 1942, 509, 49>>>>, <<-2, <<377, 1777, 1361, 348, 1266>>>>,
         <<-2, <<369, 1151, 768, 39, 1251>>>>, <<-2, <<361, 1599, 1278, 1995, 1280>>>>,
         <<-2, <<354, 965, 1733, 1471, 941>>>>, <<-2, <<347, 1204, 482, 1400, 1342>>>>,
         <<-2, <<341, 185, 539, 1477, 494>>>>, <<-2, <<334, 1933, 1407, 949, 1204>>>>,
         <<-2, <<329, 242, 1923, 481, 1676>>>>, <<-2, <<323, 1201, 1666, 1839, 635>>>>,
         <<-2, <<318, 665, 801, 1347, 1634>>>>, <<-2, <<313, 638, 297, 681, 839>>>>,
         <<-2, <<308, 1081, 412, 300, 1607>>>>, <<-2, <<303, 1959, 1470, 8, 1114>>>>,
         <<-2, <<299, 1194, 742, 1904, 690>>>>, <<-2, <<295, 804, 1786, 202, 443>>>>,
         <<-2, <<291, 765, 1380, 677, 586>>>>, <<-2, <<287, 1053, 1162, 1479, 936>>>>,
         <<-2, <<283, 1647, 918, 1230, 1525>>>>, <<-2, <<280, 480, 143, 1098, 919>>>>,
         <<-2, <<276, 1629, 1718, 1963, 462>>>>, <<-2, <<273, 984, 1307, 335, 1695>>>>,
         <<-2, <<270, 577, 1369, 587, 1281>>>>, <<-2, <<267, 395, 647, 529, 1902>>>>,
         <<-2, <<264, 425, 63, 1933, 116>>>>, <<-2, <<261, 655, 460, 1222, 1652>>>>,
         <<-2, <<258, 1075, 359, 1155, 1877>>>>, <<-3, <<511, 1301, 1833, 1191, 1764>>>>,
         <<-3, <<506, 794, 1306, 931, 1637>>>>, <<-3, <<501, 611, 885, 680, 1342>>>>,
         <<-3, <<496, 736, 643, 1644, 1223>>>>, <<-3, <<491, 1154, 818, 1704, 1898>>>>,
         <<-3, <<486, 1851, 1622, 201, 475>>>>, <<-3, <<482, 767, 1022, 1295, 1024>>>>,
         <<-3, <<477, 1985, 738, 982, 649>>>>, <<-3, <<473, 1397, 2003, 785, 1933>>>>,
         <<-3, <<469, 1042, 1346, 1610, 226>>>>, <<-3, <<465, 909, 721, 1296, 761>>>>,
         <<-3, <<461, 988, 1258, 1406, 1204>>>>, <<-3, <<457, 1271, 1126, 409, 151>>>>,
         <<-3, <<453, 1749, 1589, 1936, 1950>>>>, <<-3, <<450, 367, 792, 1500, 874>>>>,
         <<-3, <<446, 1212, 1876, 1266, 240>>>>, <<-3, <<443, 183, 631, 303, 665>>>> >>,
      << \* parent_visit_count = 21
         <<0, <<446, 1399, 120, 2000, 387>>>>, <<0, <<315, 1746, 563, 183, 1651>>>>,
         <<0, <<257, 1828, 208, 1042, 577>>>>, <<-1, <<446, 1399, 120, 2000, 387>>>>,
         <<-1, <<399, 1076, 631, 192, 1671>>>>, <<-1, <<364, 1464, 1712, 9, 633>>>>,
         <<-1, <<337, 1353, 278, 970, 442>>>>, <<-1, <<315, 1746, 563, 183, 1651>>>>,
         <<-1, <<297, 1615, 763, 650, 1623>>>>, <<-1, <<282, 1038, 1608, 404, 927>>>>,
         <<-1, <<269, 737, 845, 929, 728>>>>, <<-1, <<257, 1828, 208, 1042, 577>>>>,
         <<-2, <<495, 1127, 635, 1219, 1571>>>>, <<-2, <<477, 1073, 1808, 240, 1361>>>>,
         <<-2, <<461, 680, 1367, 1925, 1606>>>>, <<-2, <<446, 1399, 120, 2000, 387>>>>,
         <<-2, <<433, 709, 424, 1703, 899>>>>, <<-2, <<421, 280, 750, 1610, 836>>>>,
         <<-2, <<409, 1852, 1087, 1950, 23>>>>, <<-2, <<399, 1076, 631, 192, 1671>>>>,
         <<-2, <<389, 1837, 134, 771, 315>>>>, <<-2, <<380, 1910, 166, 962, 565>>>>,
         <<-2, <<372, 1145, 1703, 195, 809>>>>, <<-2, <<364, 1464, 1712, 9, 633>>>>,
         <<-2, <<357, 709, 1325, 1190, 1129>>>>, <<-2, <<350, 833, 1432, 291, 974>>>>,
         <<-2, <<343, 1754, 1643, 707, 87>>>>, <<-2, <<337, 1353, 278, 970, 442>>>>,
         <<-2, <<331, 1613, 1279, 1223, 1688>>>>, <<-2, <<326, 432, 1261, 1263, 1283>>>>,
         <<-2, <<320, 1856, 1623, 343, 1547>>>>, <<-2, <<315, 1746, 563, 183, 1651>>>>,
         <<-2, <<311, 61, 1789, 1861, 960>>>>, <<-2, <<306, 864, 952, 1645, 199>>>>,
         <<-2, <<302, 26, 947, 759, 666>>>>, <<-2, <<297, 1615, 763, 650, 1623>>>>,
         <<-2, <<293, 1509, 852, 1461, 531>>>>, <<-2, <<289, 1733, 419, 594, 869>>>>,
         <<-2, <<286, 217, 945, 1684, 759>>>>, <<-2, <<282, 1038, 1608, 404, 927>>>>,
         <<-2, <<279, 83, 899, 1276, 1595>>>>, <<-2, <<275, 1431, 358, 1382, 768>>>>,
         <<-2, <<272, 971, 152, 1405, 481>>>>, <<-2, <<269, 737, 845, 929, 728>>>>,
         <<-2, <<266, 717, 1103, 811, 431>>>>, <<-2, <<263, 899, 1575, 552, 1326>>>>,
         <<-2, <<260, 1273, 605, 688, 159>>>>, <<-2, <<257, 1828, 208, 1042, 577>>>>,
         <<-3, <<510, 1013, 1601, 237, 1905>>>>, <<-3, <<505, 746, 81, 1522, 1822>>>>,
         <<-3, <<500, 788, 1811, 664, 1885>>>>, <<-3, <<495, 1127, 635, 1219, 1571>>>>,
         <<-3, <<490, 1747, 631, 838, 1771>>>>, <<-3, <<486, 587, 1600, 12, 844>>>>,
         <<-3, <<481, 1732, 961, 885, 304>>>>, <<-3, <<477, 1073, 1808, 240, 1361>>>>,
         <<-3, <<473, 649, 491, 1771, 1023>>>>, <<-3, <<469, 448, 846, 1533, 1997>>>>,
         <<-3, <<465, 461, 1798, 1233, 1279>>>>, <<-3, <<461, 680, 1367, 1925, 1606>>>>,
         <<-3, <<457, 1096, 681, 639, 489>>>>, <<-3, <<453, 1700, 1846, 394, 35>>>>,
         <<-3, <<450, 438, 1736, 1293, 1272>>>>, <<-3, <<446, 1399, 120, 2000, 387>>>> >>,
      << \* parent_visit_count = 22
         <<0, <<450, 169, 1322, 1079, 1515>>>>, <<0, <<318, 525, 1161, 1333, 1559>>>>,
         <<0, <<259, 1751, 1951, 1999, 612>>>>, <<-1, <<450, 169, 1322, 1079, 1515>>>>,
         <<-1, <<402, 1159, 1710, 209, 226>>>>, <<-1, <<367, 1005, 1565, 42, 961>>>>,
         <<-1, <<340, 472, 730, 1467, 441>>>>, <<-1, <<318, 525, 1161, 1333, 1559>>>>,
         <<-1, <<300, 113, 199, 37, 327>>>>, <<-1, <<284, 1346, 638, 845, 414>>>>,
         <<-1, <<271, 840, 21, 1331, 454>>>>, <<-1, <<259, 1751, 1951, 1999, 612>>>>,
         <<-2, <<499, 659, 1242, 1323, 1199>>>>, <<-2, <<481, 325, 411, 1904, 293>>>>,
         <<-2, <<464, 1727, 1221, 1532, 1846>>>>, <<-2, <<450, 169, 1322, 1079, 1515>>>>,
         <<-2, <<436, 1319, 1861, 39, 556>>>>, <<-2, <<424, 700, 1548, 1778, 714>>>>,
         <<-2, <<413, 49, 1718, 436, 1937>>>>, <<-2, <<402, 1159, 1710, 209, 226>>>>,
         <<-2, <<392, 1770, 1043, 1059, 413>>>>, <<-2, <<383, 1703, 1628, 1032, 901>>>>,
         <<-2, <<375, 809, 62, 234, 1032>>>>, <<-2, <<367, 1005, 1565, 42, 961>>>>,
         <<-2, <<360, 135, 1467, 1273, 802>>>>, <<-2, <<353, 151, 1232, 411, 1712>>>>,
         <<-2, <<346, 970, 1237, 617, 1499>>>>, <<-2, <<340, 472, 730, 1467, 441>>>>,
         <<-2, <<334, 641, 623, 703, 387>>>>, <<-2, <<328, 1421, 758, 1237, 987>>>>,
         <<-2, <<323, 714, 1766, 849, 119>>>>, <<-2, <<318, 525, 1161, 1333, 1559>>>>,
         <<-2, <<313, 813, 2041, 2020, 624>>>>, <<-2, <<308, 1544, 1557, 210, 1963>>>>,
         <<-2, <<304, 638, 62, 524, 902>>>>, <<-2, <<300, 113, 199, 37, 327>>>>,
         <<-2, <<295, 1991, 2017, 1288, 1124>>>>, <<-2, <<292, 107, 261, 518, 359>>>>,
         <<-2, <<288, 581, 177, 58, 1892>>>>, <<-2, <<284, 1346, 638, 845, 414>>>>,
         <<-2, <<281, 336, 1910, 328, 1324>>>>, <<-2, <<277, 1632, 1181, 1172, 1787>>>>,
         <<-2, <<274, 1122, 435, 916, 245>>>>, <<-2, <<271, 840, 21, 1331, 454>>>>,
         <<-2, <<268, 773, 457, 822, 151>>>>, <<-2, <<265, 910, 161, 713, 533>>>>,
         <<-2, <<262, 1239, 1405, 566, 1343>>>>, <<-2, <<259, 1751, 1951, 1999, 612>>>>,
         <<-2, <<257, 389, 1048, 616, 2036>>>>, <<-3, <<509, 431, 629, 1724, 857>>>>,
         <<-3, <<504, 396, 1109, 492, 772>>>>, <<-3, <<499, 659, 1242, 1323, 1199>>>>,
         <<-3, <<494, 1206, 792, 1115, 1628>>>>, <<-3, <<489, 2023, 1404, 56, 1281>>>>,
         <<-3, <<485, 1051, 306, 93, 972>>>>, <<-3, <<481, 325, 411, 1904, 293>>>>,
         <<-3, <<476, 1882, 2001, 882, 784>>>>, <<-3, <<472, 1618, 558, 1549, 1586>>>>,
         <<-3, <<468, 1569, 1005, 571, 519>>>>, <<-3, <<464, 1727, 1221, 1532, 1846>>>>,
         <<-3, <<461, 36, 155, 6, 301>>>>, <<-3, <<457, 582, 1836, 555, 1323>>>>,
         <<-3, <<453, 1312, 974, 590, 1953>>>>, <<-3, <<450, 169, 1322, 1079, 1515>>>> >>,
      << \* parent_visit_count = 23
         <<0, <<453, 629, 1831, 382, 59>>>>, <<0, <<320, 1099, 974, 1815, 709>>>>,
         <<0, <<261, 1468, 1879, 865, 1846>>>>, <<-1, <<453, 629, 1831, 382, 59>>>>,
         <<-1, <<405, 922, 1749, 1359, 480>>>>, <<-1, <<370, 254, 226, 131, 1859>>>>,
         <<-1, <<342, 1368, 1432, 356, 1501>>>>, <<-1, <<320, 1099, 974, 1815, 709>>>>,
         <<-1, <<302, 419, 1903, 937, 722>>>>, <<-1, <<286, 1427, 420, 262, 1171>>>>,
         <<-1, <<273, 726, 1069, 880, 343>>>>, <<-1, <<261, 1468, 1879, 865, 1846>>>>,
         <<-2, <<502, 1842, 742, 790, 333>>>>, <<-2, <<484, 1241, 900, 705, 1294>>>>,
         <<-2, <<468, 356, 890, 1561, 1361>>>>, <<-2, <<453, 629, 1831, 382, 59>>>>,
         <<-2, <<439, 1582, 1988, 91, 389>>>>, <<-2, <<427, 783, 617, 372, 945>>>>,
         <<-2, <<415, 2014, 640, 1745, 843>>>>, <<-2, <<405, 922, 1749, 1359, 480>>>>,
         <<-2, <<395, 1391, 348, 799, 426>>>>, <<-2, <<386, 1191, 1878, 456, 29>>>>,
         <<-2, <<378, 173, 725, 1011, 332>>>>, <<-2, <<370, 254, 226, 131, 1859>>>>,
         <<-2, <<362, 1323, 236, 305, 1275>>>>, <<-2, <<355, 1236, 819, 1764, 937>>>>,
         <<-2, <<348, 1958, 1140, 1154, 1096>>>>, <<-2, <<342, 1368, 1432, 356, 1501>>>>,
         <<-2, <<336, 1450, 1673, 39, 407>>>>, <<-2, <<331, 100, 883, 1408, 1205>>>>,
         <<-2, <<325, 1363, 1012, 1922, 106>>>>, <<-2, <<320, 1099, 974, 1815, 709>>>>,
         <<-2, <<315, 1316, 1239, 1613, 2040>>>>, <<-2, <<310, 1979, 486, 17, 1579>>>>,
         <<-2, <<306, 1007, 649, 1637, 1697>>>>, <<-2, <<302, 419, 1903, 937, 722>>>>,
         <<-2, <<298, 190, 1868, 151, 859>>>>, <<-2, <<294, 296, 1085, 14, 82>>>>,
         <<-2, <<290, 715, 390, 1696, 472>>>>, <<-2, <<286, 1427, 420, 262, 1171>>>>,
         <<-2, <<283, 366, 1175, 897, 233>>>>, <<-2, <<279, 1612, 1653, 1677, 1823>>>>,
         <<-2, <<276, 1054, 1569, 1027, 737>>>>, <<-2, <<273, 726, 1069, 880, 343>>>>,
         <<-2, <<270, 615, 483, 1588, 1685>>>>, <<-2, <<267, 709, 106, 919, 1173>>>>,
         <<-2, <<264, 997, 1, 883, 1013>>>>, <<-2, <<261, 1468, 1879, 865, 1846>>>>,
         <<-2, <<259, 67, 753, 1681, 326>>>>, <<-2, <<256, 879, 1189, 1042, 1386>>>>,
         <<-3, <<507, 1650, 1596, 1229, 522>>>>, <<-3, <<502, 1842, 742, 790, 333>>>>,
         <<-3, <<498, 271, 1419, 1496, 1570>>>>, <<-3, <<493, 1021, 984, 175, 1796>>>>,
         <<-3, <<488, 2031, 579, 287, 1351>>>>, <<-3, <<484, 1241, 900, 705, 1294>>>>,
         <<-3, <<480, 689, 20, 93, 1933>>>>, <<-3, <<476, 363, 1464, 1455, 61>>>>,
         <<-3, <<472, 255, 1822, 1821, 970>>>>, <<-3, <<468, 356, 890, 1561, 1361>>>>,
         <<-3, <<464, 656, 1586, 480, 942>>>>, <<-3, <<460, 1148, 1678, 1399, 21>>>>,
         <<-3, <<456, 1824, 1909, 1158, 636>>>>, <<-3, <<453, 629, 1831, 382, 59>>>> >>,
      << \* parent_visit_count = 24
         <<0, <<456, 765, 607, 1334, 1435>>>>, <<0, <<322, 1443, 1401, 320, 836>>>>,
         <<0, <<263, 998, 680, 1762, 1911>>>>, <<-1, <<456, 765, 607, 1334, 1435>>>>,
         <<-1, <<408, 395, 660, 1950, 564>>>>, <<-1, <<372, 1285, 452, 1716, 1344>>>>,
         <<-1, <<344, 2019, 986, 107, 111>>>>, <<-1, <<322, 1443, 1401, 320, 836>>>>,
         <<-1, <<304, 510, 405, 207, 274>>>>, <<-1, <<288, 1302, 1327, 357, 1849>>>>,
         <<-1, <<275, 417, 295, 1527, 478>>>>, <<-1, <<263, 998, 680, 1762, 1911>>>>,
         <<-2, <<506, 616, 1503, 1186, 752>>>>, <<-2, <<487, 1810, 826, 80, 1938>>>>,
         <<-2, <<471, 697, 1585, 441, 259>>>>, <<-2, <<456, 765, 607, 1334, 1435>>>>,
         <<-2, <<442, 1530, 1814, 1225, 1316>>>>, <<-2, <<430, 559, 1185, 1109, 1798>>>>,
         <<-2, <<418, 1632, 1408, 1729, 1594>>>>, <<-2, <<408, 395, 660, 1950, 564>>>>,
         <<-2, <<398, 728, 577, 1249, 1707>>>>, <<-2, <<389, 403, 19, 1380, 1201>>>>,
         <<-2, <<380, 1314, 1511, 1018, 800>>>>, <<-2, <<372, 1285, 452, 1716, 1344>>>>,
         <<-2, <<365, 202, 1305, 658, 329>>>>, <<-2, <<358, 18, 755, 1356, 847>>>>,
         <<-2, <<351, 648, 907, 1667, 1866>>>>, <<-2, <<344, 2019, 986, 107, 111>>>>,
         <<-2, <<338, 2019, 82, 2, 1191>>>>, <<-2, <<333, 590, 529, 1824, 1374>>>>,
         <<-2, <<327, 1778, 1537, 384, 1801>>>>, <<-2, <<322, 1443, 1401, 320, 836>>>>,
         <<-2, <<317, 1593, 41, 281, 994>>>>, <<-2, <<313, 142, 1785, 1479, 515>>>>,
         <<-2, <<308, 1156, 1983, 265, 597>>>>, <<-2, <<304, 510, 405, 207, 274>>>>,
         <<-2, <<300, 224, 454, 670, 1655>>>>, <<-2, <<296, 275, 295, 759, 1542>>>>,
         <<-2, <<292, 641, 465, 1451, 622>>>>, <<-2, <<288, 1302, 1327, 357, 1849>>>>,
         <<-2, <<285, 193, 584, 1995, 811>>>>, <<-2, <<281, 1392, 1103, 1528, 1859>>>>,
         <<-2, <<278, 789, 340, 4, 476>>>>, <<-2, <<275, 417, 295, 1527, 478>>>>,
         <<-2, <<272, 263, 1123, 617, 1059>>>>, <<-2, <<269, 316, 904, 691, 1716>>>>,
         <<-2, <<266, 564, 1598, 1828, 961>>>>, <<-2, <<263, 998, 680, 1762, 1911>>>>,
         <<-2, <<260, 1607, 1224, 1932, 1990>>>>, <<-2, <<258, 335, 1530, 1075, 1079>>>>,
         <<-3, <<511, 493, 240, 1216, 1877>>>>, <<-3, <<506, 616, 1503, 1186, 752>>>>,
         <<-3, <<501, 1028, 64, 860, 783>>>>, <<-3, <<496, 1713, 1286, 923, 1110>>>>,
         <<-3, <<492, 612, 2045, 32, 587>>>>, <<-3, <<487, 1810, 826, 80, 1938>>>>,
         <<-3, <<483, 1198, 1694, 629, 1370>>>>, <<-3, <<479, 815, 1889, 1862, 203>>>>,
         <<-3, <<475, 651, 1963, 1028, 274>>>>, <<-3, <<471, 697, 1585, 441, 259>>>>,
         <<-3, <<467, 944, 1506, 340, 1182>>>>, <<-3, <<463, 1384, 1431, 1387, 2007>>>>,
         <<-3, <<459, 2009, 1997, 825, 830>>>>, <<-3, <<456, 765, 607, 1334, 1435>>>> >>,
      << \* parent_visit_count = 25
         <<0, <<459, 604, 1921, 767, 1917>>>>, <<0, <<324, 1578, 1551, 1221, 1719>>>>,
         <<0, <<265, 356, 2026, 860, 809>>>>, <<-1, <<459, 604, 1921, 767, 1917>>>>,
         <<-1, <<410, 1651, 520, 1900, 1168>>>>, <<-1, <<375, 26, 1728, 676, 676>>>>,
         <<-1, <<347, 398, 1411, 1229, 436>>>>, <<-1, <<324, 1578, 1551, 1221, 1719>>>>,
         <<-1, <<306, 403, 598, 511, 1961>>>>, <<-1, <<290, 991, 72, 106, 1548>>>>,
         <<-1, <<276, 1977, 851, 1878, 240>>>>, <<-1, <<265, 356, 2026, 860, 809>>>>,
         <<-2, <<509, 1110, 2024, 333, 631>>>>, <<-2, <<491, 15, 379, 331, 120>>>>,
         <<-2, <<474, 733, 1336, 85, 456>>>>, <<-2, <<459, 604, 1921, 767, 1917>>>>,
         <<-2, <<445, 1191, 1783, 1347, 49>>>>, <<-2, <<433, 57, 20, 1629, 244>>>>,
         <<-2, <<421, 979, 1339, 405, 1893>>>>, <<-2, <<410, 1651, 520, 1900, 1168>>>>,
         <<-2, <<400, 1855, 476, 341, 219>>>>, <<-2, <<391, 1409, 1794, 915, 191>>>>,
         <<-2, <<383, 161, 901, 300, 392>>>>, <<-2, <<375, 26, 1728, 676, 676>>>>,
         <<-2, <<367, 893, 1127, 1023, 1943>>>>, <<-2, <<360, 616, 662, 1205, 476>>>>,
         <<-2, <<353, 1158, 1336, 1147, 396>>>>, <<-2, <<347, 398, 1411, 1229, 436>>>>,
         <<-2, <<341, 319, 1182, 812, 1756>>>>, <<-2, <<335, 864, 189, 1371, 358>>>>,
         <<-2, <<329, 1981, 1076, 505, 1834>>>>, <<-2, <<324, 1578, 1551, 1221, 1719>>>>,
         <<-2, <<319, 1663, 1010, 187, 1901>>>>, <<-2, <<315, 151, 1261, 1652, 1403>>>>,
         <<-2, <<310, 1106, 1327, 1724, 163>>>>, <<-2, <<306, 403, 598, 511, 1961>>>>,
         <<-2, <<302, 63, 82, 798, 1901>>>>, <<-2, <<298, 61, 1727, 1053, 1914>>>>,
         <<-2, <<294, 377, 1690, 191, 1340>>>>, <<-2, <<290, 991, 72, 106, 1548>>>>,
         <<-2, <<286, 1883, 485, 25, 397>>>>, <<-2, <<283, 989, 1479, 1945, 155>>>>,
         <<-2, <<280, 343, 313, 1093, 588>>>>, <<-2, <<276, 1977, 851, 1878, 240>>>>,
         <<-2, <<273, 1783, 1029, 1949, 1462>>>>, <<-2, <<270, 1797, 820, 1642, 445>>>>,
         <<-2, <<267, 2007, 2039, 1469, 1589>>>>, <<-2, <<265, 356, 2026, 860, 809>>>>,
         <<-2, <<262, 930, 1683, 146, 510>>>>, <<-2, <<259, 1672, 1241, 567, 1785>>>>,
         <<-2, <<257, 526, 139, 1920, 1080>>>>, <<-3, <<509, 1110, 2024, 333, 631>>>>,
         <<-3, <<504, 1459, 742, 338, 1964>>>>, <<-3, <<500, 35, 1621, 1584, 901>>>>,
         <<-3, <<495, 923, 1374, 211, 260>>>>, <<-3, <<491, 15, 379, 331, 120>>>>,
         <<-3, <<486, 1395, 509, 636, 580>>>>, <<-3, <<482, 957, 916, 1985, 924>>>>,
         <<-3, <<478, 739, 2025, 425, 688>>>>, <<-3, <<474, 733, 1336, 85, 456>>>>,
         <<-3, <<470, 929, 1535, 809, 1365>>>>, <<-3, <<466, 1320, 173, 1669, 853>>>>,
         <<-3, <<462, 1896, 1882, 273, 1264>>>>, <<-3, <<459, 604, 1921, 767, 1917>>>> >>,
      << \* parent_visit_count = 26
         <<0, <<462, 174, 470, 294, 1147>>>>, <<0, <<326, 1522, 1361, 630, 390>>>>,
         <<0, <<266, 1607, 1146, 902, 1366>>>>, <<-1, <<462, 174, 470, 294, 1147>>>>,
         <<-1, <<413, 617, 773, 370, 139>>>>, <<-1, <<377, 595, 1488, 987, 534>>>>,
         <<-1, <<349, 621, 1088, 1457, 547>>>>, <<-1, <<326, 1522, 1361, 630, 390>>>>,
         <<-1, <<308, 116, 313, 879, 82>>>>, <<-1, <<292, 508, 896, 1795, 1098>>>>,
         <<-1, <<278, 1326, 1352, 660, 622>>>>, <<-1, <<266, 1607, 1146, 902, 1366>>>>,
         <<-1, <<256, 652, 1347, 1347, 594>>>>, <<-2, <<493, 2026, 1946, 1478, 1217>>>>,
         <<-2, <<477, 490, 643, 1573, 613>>>>, <<-2, <<462, 174, 470, 294, 1147>>>>,
         <<-2, <<448, 590, 1183, 352, 1280>>>>, <<-2, <<435, 1347, 1132, 840, 520>>>>,
         <<-2, <<424, 78, 1084, 1500, 363>>>>, <<-2, <<413, 617, 773, 370, 139>>>>,
         <<-2, <<403, 698, 413, 1751, 1742>>>>, <<-2, <<394, 138, 383, 1897, 130>>>>,
         <<-2, <<385, 830, 1340, 600, 132>>>>, <<-2, <<377, 595, 1488, 987, 534>>>>,
         <<-2, <<369, 1368, 376, 235, 1327>>>>, <<-2, <<362, 1002, 405, 1181, 1533>>>>,
         <<-2, <<355, 1460, 1528, 1203, 1138>>>>, <<-2, <<349, 621, 1088, 1457, 547>>>>,
         <<-2, <<343, 467, 621, 1792, 1647>>>>, <<-2, <<337, 940, 1004, 1989, 978>>>>,
         <<-2, <<331, 1990, 154, 81, 323>>>>, <<-2, <<326, 1522, 1361, 630, 390>>>>,
         <<-2, <<321, 1545, 1471, 1844, 731>>>>, <<-2, <<316, 2022, 1846, 1299, 669>>>>,
         <<-2, <<312, 873, 1102, 1243, 822>>>>, <<-2, <<308, 116, 313, 879, 82>>>>,
         <<-2, <<303, 1772, 158, 1495, 1212>>>>, <<-2, <<299, 1721, 238, 1246, 1262>>>>,
         <<-2, <<295, 1989, 533, 828, 717>>>>, <<-2, <<292, 508, 896, 1795, 1098>>>>,
         <<-2, <<288, 1356, 617, 1636, 427>>>>, <<-2, <<285, 420, 87, 650, 525>>>>,
         <<-2, <<281, 1780, 467, 593, 659>>>>, <<-2, <<278, 1326, 1352, 660, 622>>>>,
         <<-2, <<275, 1094, 515, 929, 775>>>>, <<-2, <<272, 1070, 1876, 845, 1594>>>>,
         <<-2, <<269, 1245, 968, 420, 1921>>>>, <<-2, <<266, 1607, 1146, 902, 1366>>>>,
         <<-2, <<264, 99, 1146, 753, 948>>>>, <<-2, <<261, 808, 1089, 94, 1131>>>>,
         <<-2, <<258, 1678, 310, 928, 1672>>>>, <<-2, <<256, 652, 1347, 1347, 594>>>>,
         <<-3, <<507, 1593, 1248, 1804, 1814>>>>, <<-3, <<503, 111, 1301, 1999, 30>>>>,
         <<-3, <<498, 942, 1456, 1859, 1215>>>>, <<-3, <<493, 2026, 1946, 1478, 1217>>>>,
         <<-3, <<489, 1305, 409, 1803, 1562>>>>, <<-3, <<485, 814, 2013, 538, 1184>>>>,
         <<-3, <<481, 546, 914, 236, 1199>>>>, <<-3, <<477, 490, 643, 1573, 613>>>>,
         <<-3, <<473, 637, 1732, 136, 540>>>>, <<-3, <<469, 980, 1627, 1237, 1483>>>>,
         <<-3, <<465, 1511, 768, 1943, 47>>>>, <<-3, <<462, 174, 470, 294, 1147>>>> >>,
      << \* parent_visit_count = 27
         <<0, <<464, 1543, 1016, 1656, 1612>>>>, <<0, <<328, 1291, 393, 466, 65>>>>,
         <<0, <<268, 666, 1911, 46, 1772>>>>, <<-1, <<464, 1543, 1016, 1656, 1612>>>>,
         <<-1, <<415, 1409, 1353, 965, 221>>>>, <<-1, <<379, 962, 201, 1730, 879>>>>,
         <<-1, <<351, 656, 1812, 1254, 1525>>>>, <<-1, <<328, 1291, 393, 466, 65>>>>,
         <<-1, <<309, 1711, 1360, 1104, 1075>>>>, <<-1, <<293, 1916, 1999, 652, 238>>>>,
         <<-1, <<280, 526, 696, 1798, 1100>>>>, <<-1, <<268, 666, 1911, 46, 1772>>>>,
         <<-1, <<257, 1636, 496, 2034, 730>>>>, <<-2, <<496, 1725, 1160, 1032, 69>>>>,
         <<-2, <<479, 2038, 1674, 1540, 1588>>>>, <<-2, <<464, 1543, 1016, 1656, 1612>>>>,
         <<-2, <<450, 1796, 1362, 1684, 993>>>>, <<-2, <<438, 356, 524, 621, 770>>>>,
         <<-2, <<426, 997, 1643, 1255, 497>>>>, <<-2, <<415, 1409, 1353, 965, 221>>>>,
         <<-2, <<405, 1372, 1388, 1746, 1275>>>>, <<-2, <<396, 702, 2012, 1414, 848>>>>,
         <<-2, <<387, 1293, 4, 881, 148>>>>, <<-2, <<379, 962, 201, 1730, 879>>>>,
         <<-2, <<371, 1644, 813, 915, 1700>>>>, <<-2, <<364, 1193, 1036, 1193, 1892>>>>,
         <<-2, <<357, 1571, 1865, 745, 314>>>>, <<-2, <<351, 656, 1812, 1254, 1525>>>>,
         <<-2, <<345, 430, 1642, 1060, 156>>>>, <<-2, <<339, 835, 1551, 93, 902>>>>,
         <<-2, <<333, 1820, 898, 1702, 1392>>>>, <<-2, <<328, 1291, 393, 466, 65>>>>,
         <<-2, <<323, 1255, 495, 1782, 1777>>>>, <<-2, <<318, 1676, 89, 1682, 822>>>>,
         <<-2, <<314, 472, 1501, 1464, 60>>>>, <<-2, <<309, 1711, 1360, 1104, 1075>>>>,
         <<-2, <<305, 1270, 30, 1043, 714>>>>, <<-2, <<301, 1171, 921, 1139, 1419>>>>,
         <<-2, <<297, 1393, 1705, 1441, 1520>>>>, <<-2, <<293, 1916, 1999, 652, 238>>>>,
         <<-2, <<290, 674, 874, 353, 936>>>>, <<-2, <<286, 1745, 570, 1240, 2039>>>>,
         <<-2, <<283, 1018, 19, 1939, 1535>>>>, <<-2, <<280, 526, 696, 1798, 1100>>>>,
         <<-2, <<277, 257, 219, 1326, 147>>>>, <<-2, <<274, 198, 317, 76, 969>>>>,
         <<-2, <<271, 338, 485, 1657, 1053>>>>, <<-2, <<268, 666, 1911, 46, 1772>>>>,
         <<-2, <<265, 1174, 1166, 361, 1214>>>>, <<-2, <<262, 1852, 314, 1192, 52>>>>,
         <<-2, <<260, 643, 641, 1563, 403>>>>, <<-2, <<257, 1636, 496, 2034, 730>>>>,
         <<-3, <<510, 1455, 628, 1433, 859>>>>, <<-3, <<505, 1965, 951, 1624, 1171>>>>,
         <<-3, <<501, 694, 415, 1175, 905>>>>, <<-3, <<496, 1725, 1160, 1032, 69>>>>,
         <<-3, <<492, 952, 693, 273, 2045>>>>, <<-3, <<488, 411, 2008, 870, 1576>>>>,
         <<-3, <<484, 94, 1195, 185, 1275>>>>, <<-3, <<479, 2038, 1674, 1540, 1588>>>>,
         <<-3, <<476, 91, 1825, 1779, 1546>>>>, <<-3, <<472, 389, 1047, 1040, 1288>>>>,
         <<-3, <<468, 875, 1734, 307, 1351>>>>, <<-3, <<464, 1543, 1016, 1656, 1612>>>> >>,
      << \* parent_visit_count = 28
         <<0, <<467, 636, 931, 941, 1969>>>>, <<0, <<330, 898, 574, 2000, 2036>>>>,
         <<0, <<269, 1642, 1008, 957, 290>>>>, <<-1, <<467, 636, 931, 941, 1969>>>>,
         <<-1, <<417, 1997, 1513, 124, 1244>>>>, <<-1, <<381, 1142, 116, 2029, 762>>>>,
         <<-1, <<353, 519, 1338, 553, 728>>>>, <<-1, <<330, 898, 574, 2000, 2036>>>>,
         <<-1, <<311, 1106, 1986, 627, 1995>>>>, <<-1, <<295, 1133, 244, 1481, 599>>>>,
         <<-1, <<281, 1636, 706, 1000, 963>>>>, <<-1, <<269, 1642, 1008, 957, 290>>>>,
         <<-1, <<259, 445, 377, 1683, 936>>>>, <<-2, <<499, 1180, 226, 1025, 1795>>>>,
         <<-2, <<482, 1303, 1075, 625, 1400>>>>, <<-2, <<467, 636, 931, 941, 1969>>>>,
         <<-2, <<453, 733, 535, 224, 162>>>>, <<-2, <<440, 1197, 1449, 619, 2032>>>>,
         <<-2, <<428, 1707, 1157, 646, 611>>>>, <<-2, <<417, 1997, 1513, 124, 1244>>>>,
         <<-2, <<407, 1847, 1782, 92, 25>>>>, <<-2, <<398, 1073, 155, 594, 937>>>>,
         <<-2, <<389, 1564, 1899, 436, 129>>>>, <<-2, <<381, 1142, 116, 2029, 762>>>>,
         <<-2, <<373, 1737, 1973, 1982, 756>>>>, <<-2, <<366, 1205, 1462, 1609, 542>>>>,
         <<-2, <<359, 1507, 661, 1958, 1752>>>>, <<-2, <<353, 519, 1338, 553, 728>>>>,
         <<-2, <<347, 224, 1468, 850, 2047>>>>, <<-2, <<341, 564, 595, 1801, 29>>>>,
         <<-2, <<335, 1486, 1599, 201, 31>>>>, <<-2, <<330, 898, 574, 2000, 2036>>>>,
         <<-2, <<325, 805, 1621, 1422, 245>>>>, <<-2, <<320, 1172, 1162, 1042, 947>>>>,
         <<-2, <<315, 1965, 1153, 1508, 82>>>>, <<-2, <<311, 1106, 1986, 627, 1995>>>>,
         <<-2, <<307, 617, 1674, 400, 1810>>>>, <<-2, <<303, 473, 1305, 250, 754>>>>,
         <<-2, <<299, 652, 349, 1367, 1437>>>>, <<-2, <<295, 1133, 244, 1481, 599>>>>,
         <<-2, <<291, 1897, 1902, 257, 1414>>>>, <<-2, <<288, 881, 1227, 1460, 451>>>>,
         <<-2, <<285, 116, 1073, 1863, 713>>>>, <<-2, <<281, 1636, 706, 1000, 963>>>>,
         <<-2, <<278, 1331, 1691, 765, 1512>>>>, <<-2, <<275, 1238, 1524, 763, 1735>>>>,
         <<-2, <<272, 1345, 1623, 1080, 1890>>>>, <<-2, <<269, 1642, 1008, 957, 290>>>>,
         <<-2, <<267, 71, 239, 1415, 2003>>>>, <<-2, <<264, 718, 1279, 371, 2039>>>>,
         <<-2, <<261, 1528, 1222, 247, 1078>>>>, <<-2, <<259, 445, 377, 1683, 936>>>>,
         <<-2, <<256, 1557, 122, 490, 76>>>>, <<-3, <<508, 1522, 1521, 657, 1698>>>>,
         <<-3, <<504, 199, 846, 1525, 547>>>>, <<-3, <<499, 1180, 226, 1025, 1795>>>>,
         <<-3, <<495, 357, 1136, 1512, 1721>>>>, <<-3, <<490, 1817, 309, 1391, 318>>>>,
         <<-3, <<486, 1452, 1914, 755, 1670>>>>, <<-3, <<482, 1303, 1075, 625, 1400>>>>,
         <<-3, <<478, 1360, 167, 1801, 879>>>>, <<-3, <<474, 1614, 545, 1446, 1493>>>>,
         <<-3, <<471, 10, 419, 55, 288>>>>, <<-3, <<467, 636, 931, 941, 1969>>>> >>,
      << \* parent_visit_count = 29
         <<0, <<469, 1566, 1225, 1744, 564>>>>, <<0, <<332, 356, 616, 1238, 826>>>>,
         <<0, <<271, 448, 691, 1921, 674>>>>, <<-1, <<469, 1566, 1225, 1744, 564>>>>,
         <<-1, <<420, 349, 529, 548, 676>>>>, <<-1, <<383, 1149, 1815, 326, 952>>>>,
         <<-1, <<355, 223, 124, 1886, 1217>>>>, <<-1, <<332, 356, 616, 1238, 826>>>>,
         <<-1, <<313, 361, 1499, 1845, 1059>>>>, <<-1, <<297, 215, 1908, 1132, 1852>>>>,
         <<-1, <<283, 571, 458, 209, 1982>>>>, <<-1, <<271, 448, 691, 1921, 674>>>>,
         <<-1, <<260, 1185, 383, 1651, 1708>>>>, <<-2, <<502, 409, 582, 397, 1102>>>>,
         <<-2, <<485, 350, 1032, 356, 618>>>>, <<-2, <<469, 1566, 1225, 1744, 564>>>>,
         <<-2, <<455, 1513, 690, 124, 654>>>>, <<-2, <<442, 1840, 822, 285, 1783>>>>,
         <<-2, <<431, 175, 1783, 1317, 997>>>>, <<-2, <<420, 349, 529, 548, 676>>>>,
         <<-2, <<410, 91, 98, 942, 423>>>>, <<-2, <<400, 1263, 789, 1509, 2022>>>>,
         <<-2, <<391, 1661, 43, 111, 1157>>>>, <<-2, <<383, 1149, 1815, 326, 952>>>>,
         <<-2, <<375, 1662, 1799, 1805, 42>>>>, <<-2, <<368, 1052, 1117, 1615, 870>>>>,
         <<-2, <<361, 1280, 922, 1196, 898>>>>, <<-2, <<355, 223, 124, 1886, 1217>>>>,
         <<-2, <<348, 1910, 87, 1551, 461>>>>, <<-2, <<343, 138, 1776, 748, 1259>>>>,
         <<-2, <<337, 1001, 1370, 530, 625>>>>, <<-2, <<332, 356, 616, 1238, 826>>>>,
         <<-2, <<327, 209, 1124, 1266, 1592>>>>, <<-2, <<322, 524, 970, 684, 806>>>>,
         <<-2, <<317, 1267, 1754, 1341, 1923>>>>, <<-2, <<313, 361, 1499, 1845, 1059>>>>,
         <<-2, <<308, 1874, 2025, 1998, 483>>>>, <<-2, <<304, 1687, 61, 866, 1842>>>>,
         <<-2, <<300, 1823, 981, 870, 1018>>>>, <<-2, <<297, 215, 1908, 1132, 1852>>>>,
         <<-2, <<293, 941, 1507, 163, 655>>>>, <<-2, <<289, 1935, 1644, 18, 1290>>>>,
         <<-2, <<286, 1134, 907, 1850, 505>>>>, <<-2, <<283, 571, 458, 209, 1982>>>>,
         <<-2, <<280, 232, 1718, 365, 1134>>>>, <<-2, <<277, 107, 4, 976, 1781>>>>,
         <<-2, <<274, 182, 709, 863, 980>>>>, <<-2, <<271, 448, 691, 1921, 674>>>>,
         <<-2, <<268, 895, 407, 1874, 908>>>>, <<-2, <<265, 1513, 1722, 171, 1070>>>>,
         <<-2, <<263, 247, 1639, 169, 1895>>>>, <<-2, <<260, 1185, 383, 1651, 1708>>>>,
         <<-2, <<258, 222, 1301, 801, 31>>>>, <<-3, <<511, 850, 1054, 1800, 1269>>>>,
         <<-3, <<506, 1525, 438, 1082, 370>>>>, <<-3, <<502, 409, 582, 397, 1102>>>>,
         <<-3, <<497, 1587, 792, 1458, 577>>>>, <<-3, <<493, 952, 1784, 702, 482>>>>,
         <<-3, <<489, 543, 1474, 1970, 321>>>>, <<-3, <<485, 350, 1032, 356, 618>>>>,
         <<-3, <<481, 364, 688, 593, 1811>>>>, <<-3, <<477, 576, 1707, 480, 1314>>>>,
         <<-3, <<473, 980, 166, 1150, 258>>>>, <<-3, <<469, 1566, 1225, 1744, 564>>>> >>,
      << \* parent_visit_count = 30
         <<0, <<472, 253, 1062, 657, 593>>>>, <<0, <<333, 1724, 568, 549, 72>>>>,
         <<0, <<272, 1189, 964, 867, 1743>>>>, <<-1, <<472, 253, 1062, 657, 593>>>>,
         <<-1, <<422, 574, 337, 928, 706>>>>, <<-1, <<385, 998, 647, 739, 1453>>>>,
         <<-1, <<356, 1826, 1829, 1293, 312>>>>, <<-1, <<333, 1724, 568, 549, 72>>>>,
         <<-1, <<314, 1534, 708, 438, 395>>>>, <<-1, <<298, 1223, 561, 667, 2027>>>>,
         <<-1, <<284, 1436, 774, 896, 970>>>>, <<-1, <<272, 1189, 964, 867, 1743>>>>,
         <<-1, <<261, 1816, 1842, 1456, 465>>>>, <<-2, <<504, 1477, 1546, 1124, 1852>>>>,
         <<-2, <<487, 1243, 1754, 1776, 2020>>>>, <<-2, <<472, 253, 1062, 657, 593>>>>,
         <<-2, <<458, 56, 36, 1337, 895>>>>, <<-2, <<445, 251, 75, 49, 778>>>>,
         <<-2, <<433, 513, 55, 1807, 1173>>>>, <<-2, <<422, 574, 337, 928, 706>>>>,
         <<-2, <<412, 211, 1681, 370, 1750>>>>, <<-2, <<402, 1287, 426, 643, 1702>>>>,
         <<-2, <<393, 1594, 587, 1426, 1566>>>>, <<-2, <<385, 998, 647, 739, 1453>>>>,
         <<-2, <<377, 1431, 1259, 935, 884>>>>, <<-2, <<370, 746, 473, 1656, 1299>>>>,
         <<-2, <<363, 903, 603, 474, 959>>>>, <<-2, <<356, 1826, 1829, 1293, 312>>>>,
         <<-2, <<350, 1402, 737, 1642, 1109>>>>, <<-2, <<344, 1618, 1787, 255, 1753>>>>,
         <<-2, <<339, 376, 623, 1525, 768>>>>, <<-2, <<333, 1724, 568, 549, 72>>>>,
         <<-2, <<328, 1525, 758, 154, 1926>>>>, <<-2, <<323, 1790, 937, 670, 376>>>>,
         <<-2, <<319, 438, 317, 654, 600>>>>, <<-2, <<314, 1534, 708, 438, 395>>>>,
         <<-2, <<310, 955, 1603, 224, 61>>>>, <<-2, <<306, 725, 1525, 1224, 1439>>>>,
         <<-2, <<302, 821, 1524, 1554, 1360>>>>, <<-2, <<298, 1223, 561, 667, 2027>>>>,
         <<-2, <<294, 1911, 1203, 1551, 953>>>>, <<-2, <<291, 821, 1047, 667, 1002>>>>,
         <<-2, <<287, 2033, 567, 513, 1052>>>>, <<-2, <<284, 1436, 774, 896, 970>>>>,
         <<-2, <<281, 1065, 907, 1301, 1154>>>>, <<-2, <<278, 908, 252, 1709, 532>>>>,
         <<-2, <<275, 952, 2037, 1155, 48>>>>, <<-2, <<272, 1189, 964, 867, 1743>>>>,
         <<-2, <<269, 1607, 1484, 1545, 1802>>>>, <<-2, <<267, 150, 1273, 1668, 58>>>>,
         <<-2, <<264, 905, 1345, 441, 408>>>>, <<-2, <<261, 1816, 1842, 1456, 465>>>>,
         <<-2, <<259, 828, 1939, 1396, 310>>>>, <<-2, <<256, 2030, 1796, 1858, 968>>>>,
         <<-3, <<509, 592, 866, 1660, 522>>>>, <<-3, <<504, 1477, 1546, 1124, 1852>>>>,
         <<-3, <<500, 562, 727, 543, 150>>>>, <<-3, <<495, 1931, 1061, 1402, 1452>>>>,
         <<-3, <<491, 1479, 364, 1383, 1092>>>>, <<-3, <<487, 1243, 1754, 1776, 2020>>>>,
         <<-3, <<483, 1216, 1277, 380, 414>>>>, <<-3, <<479, 1389, 109, 711, 1311>>>>,
         <<-3, <<475, 1753, 391, 1041, 1099>>>>, <<-3, <<472, 253, 1062, 657, 593>>>> >>,
      << \* parent_visit_count = 31
         <<0, <<474, 807, 342, 593, 350>>>>, <<0, <<335, 916, 154, 875, 1731>>>>,
         <<0, <<273, 1825, 1938, 1632, 661>>>>, <<-1, <<474, 807, 342, 593, 350>>>>,
         <<-1, <<424, 636, 1918, 948, 641>>>>, <<-1, <<387, 698, 1511, 1428, 1302>>>>,
         <<-1, <<358, 1245, 1427, 1797, 821>>>>, <<-1, <<335, 916, 154, 875, 1731>>>>,
         <<-1, <<316, 538, 228, 395, 916>>>>, <<-1, <<300, 67, 1986, 944, 455>>>>,
         <<-1, <<286, 144, 453, 1875, 1486>>>>, <<-1, <<273, 1825, 1938, 1632, 661>>>>,
         <<-1, <<263, 300, 124, 446, 1926>>>>, <<-2, <<507, 304, 897, 1718, 2004>>>>,
         <<-2, <<489, 1949, 2033, 1822, 1024>>>>, <<-2, <<474, 807, 342, 593, 350>>>>,
         <<-2, <<460, 470, 1719, 363, 881>>>>, <<-2, <<447, 538, 1571, 485, 259>>>>,
         <<-2, <<435, 683, 1714, 1646, 142>>>>, <<-2, <<424, 636, 1918, 948, 641>>>>,
         <<-2, <<414, 174, 751, 277, 660>>>>, <<-2, <<404, 1156, 904, 1060, 88>>>>,
         <<-2, <<395, 1376, 741, 42, 1353>>>>, <<-2, <<387, 698, 1511, 1428, 1302>>>>,
         <<-2, <<379, 1055, 683, 884, 280>>>>, <<-2, <<372, 297, 1465, 1397, 1415>>>>,
         <<-2, <<365, 386, 1219, 1493, 1564>>>>, <<-2, <<358, 1245, 1427, 1797, 821>>>>,
         <<-2, <<352, 760, 66, 725, 1259>>>>, <<-2, <<346, 918, 1015, 480, 893>>>>,
         <<-2, <<340, 1668, 1455, 630, 2005>>>>, <<-2, <<335, 916, 154, 875, 1731>>>>,
         <<-2, <<330, 666, 1986, 88, 108>>>>, <<-2, <<325, 884, 184, 1421, 439>>>>,
         <<-2, <<320, 1533, 1824, 1819, 760>>>>, <<-2, <<316, 538, 228, 395, 916>>>>,
         <<-2, <<311, 1965, 763, 744, 262>>>>, <<-2, <<307, 1694, 1710, 1087, 333>>>>,
         <<-2, <<303, 1751, 1849, 629, 481>>>>, <<-2, <<300, 67, 1986, 944, 455>>>>,
         <<-2, <<296, 720, 409, 1708, 1867>>>>, <<-2, <<292, 1643, 689, 1151, 1573>>>>,
         <<-2, <<289, 773, 1097, 1179, 172>>>>, <<-2, <<286, 144, 453, 1875, 1486>>>>,
         <<-2, <<282, 1789, 1961, 1314, 1793>>>>, <<-2, <<279, 1602, 689, 267, 1457>>>>,
         <<-2, <<276, 1617, 1799, 824, 1347>>>>, <<-2, <<273, 1825, 1938, 1632, 661>>>>,
         <<-2, <<271, 168, 1365, 1801, 1663>>>>, <<-2, <<268, 732, 1761, 1929, 975>>>>,
         <<-2, <<265, 1461, 2008, 1711, 1116>>>>, <<-2, <<263, 300, 124, 446, 1926>>>>,
         <<-2, <<260, 1335, 1352, 1139, 1345>>>>, <<-2, <<258, 465, 1690, 952, 868>>>>,
         <<-3, <<511, 1512, 186, 628, 1478>>>>, <<-3, <<507, 304, 897, 1718, 2004>>>>,
         <<-3, <<502, 1393, 497, 1096, 1868>>>>, <<-3, <<498, 671, 1532, 1430, 47>>>>,
         <<-3, <<494, 177, 1719, 104, 1921>>>>, <<-3, <<489, 1949, 2033, 1822, 1024>>>>,
         <<-3, <<485, 1883, 482, 370, 1259>>>>, <<-3, <<481, 2017, 206, 1373, 485>>>>,
         <<-3, <<478, 295, 1221, 348, 1095>>>>, <<-3, <<474, 807, 342, 593, 350>>>> >>,
      << \* parent_visit_count = 32
         <<0, <<476, 1192, 156, 1479, 1403>>>>, <<0, <<336, 2036, 1140, 754, 265>>>>,
         <<0, <<275, 317, 1, 1816, 1080>>>>, <<-1, <<476, 1192, 156, 1479, 1403>>>>,
         <<-1, <<426, 548, 1605, 1081, 1351>>>>, <<-1, <<389, 261, 789, 322, 1232>>>>,
         <<-1, <<360, 536, 1938, 125, 1655>>>>, <<-1, <<336, 2036, 1140, 754, 265>>>>,
         <<-1, <<317, 1477, 787, 303, 1618>>>>, <<-1, <<301, 853, 1937, 351, 1091>>>>,
         <<-1, <<287, 798, 638, 612, 1006>>>>, <<-1, <<275, 317, 1, 1816, 1080>>>>,
         <<-1, <<264, 737, 1273, 1635, 607>>>>, <<-2, <<509, 998, 1499, 417, 847>>>>,
         <<-2, <<492, 433, 1753, 1982, 242>>>>, <<-2, <<476, 1192, 156, 1479, 1403>>>>,
         <<-2, <<462, 721, 1966, 506, 832>>>>, <<-2, <<449, 667, 837, 1688, 353>>>>,
         <<-2, <<437, 699, 1642, 59, 488>>>>, <<-2, <<426, 548, 1605, 1081, 1351>>>>,
         <<-2, <<415, 2037, 1280, 586, 2042>>>>, <<-2, <<406, 881, 1585, 426, 183>>>>,
         <<-2, <<397, 1017, 1430, 1547, 224>>>>, <<-2, <<389, 261, 789, 322, 1232>>>>,
         <<-2, <<381, 544, 125, 774, 303>>>>, <<-2, <<373, 1764, 1700, 477, 1063>>>>,
         <<-2, <<366, 1788, 2, 1056, 1439>>>>, <<-2, <<360, 536, 1938, 125, 1655>>>>,
         <<-2, <<353, 2040, 754, 731, 536>>>>, <<-2, <<348, 94, 1821, 399, 1839>>>>,
         <<-2, <<342, 791, 1824, 1311, 1933>>>>, <<-2, <<336, 2036, 1140, 754, 265>>>>,
         <<-2, <<331, 1739, 152, 1435, 429>>>>, <<-2, <<326, 1909, 1983, 1693, 852>>>>,
         <<-2, <<322, 467, 1103, 813, 2038>>>>, <<-2, <<317, 1477, 787, 303, 1618>>>>,
         <<-2, <<313, 816, 1, 470, 445>>>>, <<-2, <<309, 506, 887, 302, 1398>>>>,
         <<-2, <<305, 525, 2011, 172, 661>>>>, <<-2, <<301, 853, 1937, 351, 1091>>>>,
         <<-2, <<297, 1471, 823, 688, 819>>>>, <<-2, <<294, 313, 28, 1460, 686>>>>,
         <<-2, <<290, 1458, 1771, 1188, 98>>>>, <<-2, <<287, 798, 638, 612, 1006>>>>,
         <<-2, <<284, 365, 1753, 38, 901>>>>, <<-2, <<281, 149, 66, 1874, 1084>>>>,
         <<-2, <<278, 136, 634, 1196, 293>>>>, <<-2, <<275, 317, 1, 1816, 1080>>>>,
         <<-2, <<272, 681, 382, 260, 802>>>>, <<-2, <<269, 1219, 1321, 1832, 212>>>>,
         <<-2, <<266, 1923, 1622, 654, 1279>>>>, <<-2, <<264, 737, 1273, 1635, 607>>>>,
         <<-2, <<261, 1749, 1354, 1086, 517>>>>, <<-2, <<259, 856, 1891, 897, 1504>>>>,
         <<-2, <<257, 100, 1778, 491, 894>>>>, <<-3, <<509, 998, 1499, 417, 847>>>>,
         <<-3, <<504, 2045, 676, 1850, 1056>>>>, <<-3, <<500, 1282, 1487, 580, 1441>>>>,
         <<-3, <<496, 748, 1550, 1070, 325>>>>, <<-3, <<492, 433, 1753, 1982, 242>>>>,
         <<-3, <<488, 329, 17, 1680, 1159>>>>, <<-3, <<484, 425, 1452, 1773, 1444>>>>,
         <<-3, <<480, 715, 1901, 850, 841>>>>, <<-3, <<476, 1192, 156, 1479, 1403>>>> >>,
      << \* parent_visit_count = 33
         <<0, <<478, 1419, 1115, 1829, 1608>>>>, <<0, <<338, 997, 1455, 655, 1453>>>>,
         <<0, <<276, 765, 320, 1192, 927>>>>, <<-1, <<478, 1419, 1115, 1829, 1608>>>>,
         <<-1, <<428, 319, 1662, 307, 229>>>>, <<-1, <<390, 1743, 988, 128, 207>>>>,
         <<-1, <<361, 1757, 371, 151, 304>>>>, <<-1, <<338, 997, 1455, 655, 1453>>>>,
         <<-1, <<319, 263, 1426, 1219, 1755>>>>, <<-1, <<302, 1540, 711, 793, 394>>>>,
         <<-1, <<288, 1357, 944, 1006, 965>>>>, <<-1, <<276, 765, 320, 1192, 927>>>>,
         <<-1, <<265, 1087, 1742, 526, 176>>>>, <<-2, <<511, 1524, 1462, 1019, 1666>>>>,
         <<-2, <<494, 803, 236, 426, 25>>>>, <<-2, <<478, 1419, 1115, 1829, 1608>>>>,
         <<-2, <<464, 820, 697, 584, 923>>>>, <<-2, <<451, 647, 1257, 1556, 1937>>>>,
         <<-2, <<439, 571, 590, 1422, 671>>>>, <<-2, <<428, 319, 1662, 307, 229>>>>,
         <<-2, <<417, 1715, 937, 769, 2000>>>>, <<-2, <<408, 472, 1720, 1581, 169>>>>,
         <<-2, <<399, 527, 1475, 1136, 1078>>>>, <<-2, <<390, 1743, 988, 128, 207>>>>,
         <<-2, <<382, 1954, 1711, 1873, 877>>>>, <<-2, <<375, 1060, 896, 1262, 801>>>>,
         <<-2, <<368, 1020, 427, 907, 553>>>>, <<-2, <<361, 1757, 371, 151, 304>>>>,
         <<-2, <<355, 1155, 1556, 1000, 1683>>>>, <<-2, <<349, 1204, 622, 1665, 181>>>>,
         <<-2, <<343, 1849, 1970, 1574, 1907>>>>, <<-2, <<338, 997, 1455, 655, 1453>>>>,
         <<-2, <<333, 653, 1129, 972, 1488>>>>, <<-2, <<328, 779, 1727, 923, 987>>>>,
         <<-2, <<323, 1342, 1509, 358, 1947>>>>, <<-2, <<319, 263, 1426, 1219, 1755>>>>,
         <<-2, <<314, 1611, 196, 703, 343>>>>, <<-2, <<310, 1263, 1781, 1113, 426>>>>,
         <<-2, <<306, 1247, 446, 913, 1413>>>>, <<-2, <<302, 1540, 711, 793, 394>>>>,
         <<-2, <<299, 76, 514, 1285, 1405>>>>, <<-2, <<295, 933, 1058, 62, 1482>>>>,
         <<-2, <<292, 0, 319, 980, 481>>>>, <<-2, <<288, 1357, 944, 1006, 965>>>>,
         <<-2, <<285, 895, 1790, 1570, 152>>>>, <<-2, <<282, 650, 1792, 814, 1428>>>>,
         <<-2, <<279, 610, 1803, 746, 1640>>>>, <<-2, <<276, 765, 320, 1192, 927>>>>,
         <<-2, <<273, 1103, 1515, 753, 41>>>>, <<-2, <<270, 1617, 754, 1343, 1572>>>>,
         <<-2, <<268, 249, 857, 1418, 1983>>>>, <<-2, <<265, 1087, 1742, 526, 176>>>>,
         <<-2, <<263, 29, 322, 1533, 1503>>>>, <<-2, <<260, 1162, 658, 1450, 1503>>>>,
         <<-2, <<258, 384, 1584, 1068, 443>>>>, <<-3, <<511, 1524, 1462, 1019, 1666>>>>,
         <<-3, <<507, 482, 1207, 579, 1450>>>>, <<-3, <<502, 1728, 655, 152, 1035>>>>,
         <<-3, <<498, 1155, 1429, 1767, 457>>>>, <<-3, <<494, 803, 236, 426, 25>>>>,
         <<-3, <<490, 661, 1056, 1072, 1098>>>>, <<-3, <<486, 722, 732, 909, 209>>>>,
         <<-3, <<482, 977, 1177, 884, 406>>>>, <<-3, <<478, 1419, 1115, 1829, 1608>>>> >>,
      << \* parent_visit_count = 34
         <<0, <<480, 1499, 1620, 92, 676>>>>, <<0, <<339, 1902, 1561, 1609, 461>>>>,
         <<0, <<277, 1128, 641, 1657, 1181>>>>, <<-1, <<480, 1499, 1620, 92, 676>>>>,
         <<-1, <<429, 2007, 327, 241, 97>>>>, <<-1, <<392, 1057, 764, 514, 922>>>>,
         <<-1, <<363, 818, 259, 366, 1772>>>>, <<-1, <<339, 1902, 1561, 1609, 461>>>>,
         <<-1, <<320, 999, 1762, 1426, 1816>>>>, <<-1, <<304, 85, 1305, 595, 1230>>>>,
         <<-1, <<289, 1827, 1704, 1429, 1609>>>>, <<-1, <<277, 1128, 641, 1657, 1181>>>>,
         <<-1, <<266, 1356, 850, 1011, 174>>>>, <<-1, <<256, 1970, 1340, 977, 223>>>>,
         <<-2, <<496, 1020, 663, 422, 1713>>>>, <<-2, <<480, 1499, 1620, 92, 676>>>>,
         <<-2, <<466, 775, 1831, 1370, 1845>>>>, <<-2, <<453, 489, 34, 780, 615>>>>,
         <<-2, <<441, 307, 1381, 1787, 1864>>>>, <<-2, <<429, 2007, 327, 241, 97>>>>,
         <<-2, <<419, 1264, 1606, 145, 1844>>>>, <<-2, <<409, 1986, 726, 1791, 985>>>>,
         <<-2, <<400, 1962, 1946, 1598, 399>>>>, <<-2, <<392, 1057, 764, 514, 922>>>>,
         <<-2, <<384, 1199, 1705, 1302, 1360>>>>, <<-2, <<377, 240, 1136, 607, 65>>>>,
         <<-2, <<370, 139, 173, 162, 209>>>>, <<-2, <<363, 818, 259, 366, 1772>>>>,
         <<-2, <<357, 161, 1633, 1756, 417>>>>, <<-2, <<351, 158, 415, 1874, 1152>>>>,
         <<-2, <<345, 754, 544, 2020, 1425>>>>, <<-2, <<339, 1902, 1561, 1609, 461>>>>,
         <<-2, <<334, 1513, 1056, 1890, 1438>>>>, <<-2, <<329, 1596, 1484, 454, 1787>>>>,
         <<-2, <<325, 70, 808, 607, 151>>>>, <<-2, <<320, 999, 1762, 1426, 1816>>>>,
         <<-2, <<316, 261, 775, 65, 1694>>>>, <<-2, <<311, 1925, 1589, 1546, 1179>>>>,
         <<-2, <<307, 1874, 320, 402, 1450>>>>, <<-2, <<304, 85, 1305, 595, 1230>>>>,
         <<-2, <<300, 637, 269, 980, 1494>>>>, <<-2, <<296, 1463, 310, 1447, 1399>>>>,
         <<-2, <<293, 499, 1315, 777, 942>>>>, <<-2, <<289, 1827, 1704, 1429, 1609>>>>,
         <<-2, <<286, 1338, 218, 160, 1430>>>>, <<-2, <<283, 1065, 1824, 783, 89>>>>,
         <<-2, <<280, 999, 1132, 1098, 149>>>>, <<-2, <<277, 1128, 641, 1657, 1181>>>>,
         <<-2, <<274, 1442, 340, 1223, 94>>>>, <<-2, <<271, 1931, 1659, 58, 1188>>>>,
         <<-2, <<269, 540, 1197, 237, 686>>>>, <<-2, <<266, 1356, 850, 1011, 174>>>>,
         <<-2, <<264, 275, 1564, 149, 157>>>>, <<-2, <<261, 1387, 1192, 342, 1980>>>>,
         <<-2, <<259, 589, 559, 1746, 2012>>>>, <<-2, <<256, 1970, 1340, 977, 223>>>>,
         <<-3, <<509, 811, 1736, 1600, 1779>>>>, <<-3, <<504, 2019, 540, 356, 1025>>>>,
         <<-3, <<500, 1409, 626, 149, 2038>>>>, <<-3, <<496, 1020, 663, 422, 1713>>>>,
         <<-3, <<492, 843, 458, 2018, 132>>>>, <<-3, <<488, 869, 876, 1064, 998>>>>,
         <<-3, <<484, 1090, 1710, 1854, 997>>>>, <<-3, <<480, 1499, 1620, 92, 676>>>> >>,
      << \* parent_visit_count = 35
         <<0, <<482, 1442, 177, 1354, 414>>>>, <<0, <<341, 662, 550, 1332, 1126>>>>,
         <<0, <<278, 1411, 1688, 1176, 1435>>>>, <<-1, <<482, 1442, 177, 1354, 414>>>>,
         <<-1, <<431, 1523, 248, 507, 312>>>>, <<-1, <<394, 258, 1285, 1547, 897>>>>,
         <<-1, <<364, 1822, 1620, 659, 885>>>>, <<-1, <<341, 662, 550, 1332, 1126>>>>,
         <<-1, <<321, 1644, 118, 902, 1641>>>>, <<-1, <<305, 591, 1392, 519, 1807>>>>,
         <<-1, <<291, 167, 33, 830, 1952>>>>, <<-1, <<278, 1411, 1688, 1176, 1435>>>>,
         <<-1, <<267, 1548, 939, 869, 1351>>>>, <<-1, <<258, 33, 439, 118, 877>>>>,
         <<-2, <<498, 1095, 118, 378, 1590>>>>, <<-2, <<482, 1442, 177, 1354, 414>>>>,
         <<-2, <<468, 597, 1262, 1913, 1633>>>>, <<-2, <<455, 200, 734, 411, 819>>>>,
         <<-2, <<442, 1965, 960, 1212, 1930>>>>, <<-2, <<431, 1523, 248, 507, 312>>>>,
         <<-2, <<421, 693, 1428, 1802, 345>>>>, <<-2, <<411, 1334, 460, 1944, 1904>>>>,
         <<-2, <<402, 1235, 249, 1888, 585>>>>, <<-2, <<394, 258, 1285, 1547, 897>>>>,
         <<-2, <<386, 334, 961, 673, 1560>>>>, <<-2, <<378, 1360, 931, 133, 1957>>>>,
         <<-2, <<371, 1199, 1568, 1568, 1913>>>>, <<-2, <<364, 1822, 1620, 659, 885>>>>,
         <<-2, <<358, 1113, 754, 1546, 1675>>>>, <<-2, <<352, 1059, 731, 1495, 131>>>>,
         <<-2, <<346, 1607, 949, 47, 490>>>>, <<-2, <<341, 662, 550, 1332, 1126>>>>,
         <<-2, <<336, 229, 868, 1901, 1151>>>>, <<-2, <<331, 270, 1992, 272, 226>>>>,
         <<-2, <<326, 752, 1599, 653, 1642>>>>, <<-2, <<321, 1644, 118, 902, 1641>>>>,
         <<-2, <<317, 868, 1936, 94, 604>>>>, <<-2, <<313, 450, 345, 282, 1018>>>>,
         <<-2, <<309, 364, 1506, 1431, 1424>>>>, <<-2, <<305, 591, 1392, 519, 1807>>>>,
         <<-2, <<301, 1111, 1709, 1845, 1460>>>>, <<-2, <<297, 1907, 1314, 1409, 2005>>>>,
         <<-2, <<294, 914, 2006, 306, 845>>>>, <<-2, <<291, 167, 33, 830, 1952>>>>,
         <<-2, <<287, 1698, 165, 1020, 1573>>>>, <<-2, <<284, 1399, 1121, 1363, 853>>>>,
         <<-2, <<281, 1307, 1509, 243, 376>>>>, <<-2, <<278, 1411, 1688, 1176, 1435>>>>,
         <<-2, <<275, 1701, 1564, 773, 1699>>>>, <<-2, <<273, 120, 440, 1066, 82>>>>,
         <<-2, <<270, 754, 988, 546, 1778>>>>, <<-2, <<267, 1548, 939, 869, 1351>>>>,
         <<-2, <<265, 446, 1175, 1182, 1390>>>>, <<-2, <<262, 1537, 1539, 1714, 598>>>>,
         <<-2, <<260, 719, 753, 1762, 1856>>>>, <<-2, <<258, 33, 439, 118, 877>>>>,
         <<-3, <<511, 994, 1906, 181, 124>>>>, <<-3, <<507, 117, 609, 128, 2028>>>>,
         <<-3, <<502, 1519, 483, 1789, 1107>>>>, <<-3, <<498, 1095, 118, 378, 1590>>>>,
         <<-3, <<494, 883, 1291, 31, 1244>>>>, <<-3, <<490, 876, 697, 844, 1827>>>>,
         <<-3, <<486, 1065, 112, 879, 498>>>>, <<-3, <<482, 1442, 177, 1354, 414>>>> >>,
      << \* parent_visit_count = 36
         <<0, <<484, 1254, 1779, 1795, 751>>>>, <<0, <<342, 1378, 400, 221, 1377>>>>,
         <<0, <<279, 1620, 1148, 2029, 921>>>>, <<-1, <<484, 1254, 1779, 1795, 751>>>>,
         <<-1, <<433, 923, 496, 957, 1806>>>>, <<-1, <<395, 1402, 276, 1904, 1977>>>>,
         <<-1, <<366, 681, 1132, 615, 812>>>>, <<-1, <<342, 1378, 400, 221, 1377>>>>,
         <<-1, <<323, 153, 1869, 514, 501>>>>, <<-1, <<306, 1015, 1660, 1148, 836>>>>,
         <<-1, <<292, 476, 206, 664, 1379>>>>, <<-1, <<279, 1620, 1148, 2029, 921>>>>,
         <<-1, <<268, 1668, 1353, 1616, 355>>>>, <<-1, <<259, 74, 1119, 158, 86>>>>,
         <<-2, <<500, 1036, 62, 1960, 307>>>>, <<-2, <<484, 1254, 1779, 1795, 751>>>>,
         <<-2, <<470, 293, 1418, 621, 1669>>>>, <<-2, <<456, 1837, 1216, 295, 1153>>>>,
         <<-2, <<444, 1456, 847, 560, 1413>>>>, <<-2, <<433, 923, 496, 957, 1806>>>>,
         <<-2, <<423, 9, 1152, 547, 1550>>>>, <<-2, <<413, 571, 1322, 1418, 142>>>>,
         <<-2, <<404, 399, 556, 1586, 413>>>>, <<-2, <<395, 1402, 276, 1904, 1977>>>>,
         <<-2, <<387, 1413, 1014, 617, 192>>>>, <<-2, <<380, 330, 1547, 1621, 1748>>>>,
         <<-2, <<373, 112, 1531, 2023, 545>>>>, <<-2, <<366, 681, 1132, 615, 812>>>>,
         <<-2, <<359, 1968, 1513, 1640, 1115>>>>, <<-2, <<353, 1865, 1901, 313, 534>>>>,
         <<-2, <<348, 319, 1260, 1177, 1501>>>>, <<-2, <<342, 1378, 400, 221, 1377>>>>,
         <<-2, <<337, 903, 309, 278, 950>>>>, <<-2, <<332, 904, 768, 1171, 298>>>>,
         <<-2, <<327, 1347, 1229, 145, 1335>>>>, <<-2, <<323, 153, 1869, 514, 501>>>>,
         <<-2, <<318, 1391, 706, 151, 1386>>>>, <<-2, <<314, 938, 1067, 1792, 254>>>>,
         <<-2, <<310, 820, 737, 936, 832>>>>, <<-2, <<306, 1015, 1660, 1148, 836>>>>,
         <<-2, <<302, 1505, 1294, 173, 1147>>>>, <<-2, <<299, 224, 398, 1820, 958>>>>,
         <<-2, <<295, 1251, 643, 1970, 370>>>>, <<-2, <<292, 476, 206, 664, 1379>>>>,
         <<-2, <<288, 1980, 1696, 638, 1203>>>>, <<-2, <<285, 1656, 1682, 1895, 1579>>>>,
         <<-2, <<282, 1540, 726, 1629, 1395>>>>, <<-2, <<279, 1620, 1148, 2029, 921>>>>,
         <<-2, <<276, 1887, 724, 1025, 1892>>>>, <<-2, <<274, 283, 729, 1406, 282>>>>,
         <<-2, <<271, 895, 1717, 814, 484>>>>, <<-2, <<268, 1668, 1353, 1616, 355>>>>,
         <<-2, <<266, 546, 459, 306, 1338>>>>, <<-2, <<263, 1617, 867, 587, 635>>>>,
         <<-2, <<261, 779, 1246, 444, 1410>>>>, <<-2, <<259, 74, 1119, 158, 86>>>>,
         <<-2, <<256, 1544, 796, 636, 1322>>>>, <<-3, <<509, 127, 580, 1297, 1139>>>>,
         <<-3, <<504, 1494, 567, 1389, 1017>>>>, <<-3, <<500, 1036, 62, 1960, 307>>>>,
         <<-3, <<496, 791, 771, 1117, 1883>>>>, <<-3, <<492, 751, 1366, 1516, 1892>>>>,
         <<-3, <<488, 908, 1509, 1503, 400>>>>, <<-3, <<484, 1254, 1779, 1795, 751>>>> >>,
      << \* parent_visit_count = 37
         <<0, <<486, 945, 1713, 1742, 613>>>>, <<0, <<343, 2007, 2019, 458, 837>>>>,
         <<0, <<280, 1758, 1982, 475, 1280>>>>, <<-1, <<486, 945, 1713, 1742, 613>>>>,
         <<-1, <<435, 214, 838, 725, 191>>>>, <<-1, <<397, 398, 371, 1242, 939>>>>,
         <<-1, <<367, 1496, 473, 1980, 113>>>>, <<-1, <<343, 2007, 2019, 458, 837>>>>,
         <<-1, <<324, 630, 1142, 1161, 1092>>>>, <<-1, <<307, 1362, 1842, 488, 1786>>>>,
         <<-1, <<293, 711, 1491, 838, 1061>>>>, <<-1, <<280, 1758, 1982, 475, 1280>>>>,
         <<-1, <<269, 1721, 599, 1297, 1423>>>>, <<-1, <<260, 50, 1568, 893, 1295>>>>,
         <<-2, <<502, 851, 397, 1587, 1025>>>>, <<-2, <<486, 945, 1713, 1742, 613>>>>,
         <<-2, <<471, 1919, 1210, 344, 1325>>>>, <<-2, <<458, 1311, 2009, 1293, 1799>>>>,
         <<-2, <<446, 835, 1174, 1751, 1530>>>>, <<-2, <<435, 214, 838, 725, 191>>>>,
         <<-2, <<424, 1267, 202, 1922, 1232>>>>, <<-2, <<414, 1753, 374, 781, 1497>>>>,
         <<-2, <<405, 1509, 1682, 118, 1132>>>>, <<-2, <<397, 398, 371, 1242, 939>>>>,
         <<-2, <<389, 347, 142, 574, 1310>>>>, <<-2, <<381, 1253, 1019, 518, 1989>>>>,
         <<-2, <<374, 979, 1960, 634, 341>>>>, <<-2, <<367, 1496, 473, 1980, 113>>>>,
         <<-2, <<361, 685, 1286, 1119, 1788>>>>, <<-2, <<355, 535, 1102, 1821, 701>>>>,
         <<-2, <<349, 992, 519, 213, 1568>>>>, <<-2, <<343, 2007, 2019, 458, 837>>>>,
         <<-2, <<338, 1492, 116, 790, 1982>>>>, <<-2, <<333, 1454, 437, 1476, 1982>>>>,
         <<-2, <<328, 1860, 118, 199, 1611>>>>, <<-2, <<324, 630, 1142, 1161, 1092>>>>,
         <<-2, <<319, 1833, 1309, 1098, 943>>>>, <<-2, <<315, 1347, 1701, 103, 1116>>>>,
         <<-2, <<311, 1197, 1967, 1096, 1959>>>>, <<-2, <<307, 1362, 1842, 488, 1786>>>>,
         <<-2, <<303, 1823, 679, 1425, 112>>>>, <<-2, <<300, 513, 1151, 20, 2011>>>>,
         <<-2, <<296, 1513, 702, 1421, 24>>>>, <<-2, <<293, 711, 1491, 838, 1061>>>>,
         <<-2, <<290, 142, 1924, 483, 810>>>>, <<-2, <<286, 1842, 519, 256, 1962>>>>,
         <<-2, <<283, 1701, 1841, 150, 934>>>>, <<-2, <<280, 1758, 1982, 475, 1280>>>>,
         <<-2, <<277, 2003, 686, 1580, 1521>>>>, <<-2, <<275, 377, 1205, 1595, 1079>>>>,
         <<-2, <<272, 968, 1975, 1808, 1884>>>>, <<-2, <<269, 1721, 599, 1297, 1423>>>>,
         <<-2, <<267, 578, 1933, 1911, 338>>>>, <<-2, <<264, 1630, 1613, 145, 1308>>>>,
         <<-2, <<262, 774, 301, 195, 781>>>>, <<-2, <<260, 50, 1568, 893, 1295>>>>,
         <<-2, <<257, 1502, 1583, 1712, 6>>>>, <<-3, <<511, 9, 633, 1068, 104>>>>,
         <<-3, <<506, 1342, 915, 331, 509>>>>, <<-3, <<502, 851, 397, 1587, 1025>>>>,
         <<-3, <<498, 574, 714, 1638, 118>>>>, <<-3, <<494, 503, 471, 1954, 297>>>>,
         <<-3, <<490, 629, 1314, 1274, 1516>>>>, <<-3, <<486, 945, 1713, 1742, 613>>>> >>,
      << \* parent_visit_count = 38
         <<0, <<488, 522, 68, 1248, 1400>>>>, <<0, <<345, 508, 1272, 64, 187>>>>,
         <<0, <<281, 1831, 228, 1210, 1665>>>>, <<-1, <<488, 522, 68, 1248, 1400>>>>,
         <<-1, <<436, 1450, 1888, 86, 1332>>>>, <<-1, <<398, 1348, 1059, 1576, 698>>>>,
         <<-1, <<369, 176, 309, 1261, 583>>>>, <<-1, <<345, 508, 1272, 64, 187>>>>,
         <<-1, <<325, 1030, 1411, 149, 1616>>>>, <<-1, <<308, 1637, 820, 973, 1098>>>>,
         <<-1, <<294, 878, 299, 570, 719>>>>, <<-1, <<281, 1831, 228, 1210, 1665>>>>,
         <<-1, <<270, 1710, 534, 1071, 159>>>>, <<-1, <<260, 2013, 1305, 1302, 1883>>>>,
         <<-2, <<504, 547, 1684, 1519, 1625>>>>, <<-2, <<488, 522, 68, 1248, 1400>>>>,
         <<-2, <<473, 1386, 296, 1760, 348>>>>, <<-2, <<460, 678, 330, 1450, 1615>>>>,
         <<-2, <<448, 109, 844, 1328, 1805>>>>, <<-2, <<436, 1450, 1888, 86, 1332>>>>,
         <<-2, <<426, 376, 932, 182, 747>>>>, <<-2, <<416, 788, 1725, 1477, 137>>>>,
         <<-2, <<407, 476, 1321, 155, 34>>>>, <<-2, <<398, 1348, 1059, 1576, 698>>>>,
         <<-2, <<390, 1236, 1693, 589, 711>>>>, <<-2, <<383, 38, 421, 760, 1362>>>>,
         <<-2, <<375, 1758, 1670, 249, 171>>>>, <<-2, <<369, 176, 309, 1261, 583>>>>,
         <<-2, <<362, 1365, 547, 1296, 1048>>>>, <<-2, <<356, 1169, 679, 1001, 48>>>>,
         <<-2, <<350, 1582, 895, 1752, 1234>>>>, <<-2, <<345, 508, 1272, 64, 187>>>>,
         <<-2, <<339, 2001, 94, 2003, 875>>>>, <<-2, <<334, 1925, 655, 137, 1248>>>>,
         <<-2, <<330, 246, 1875, 1016, 1118>>>>, <<-2, <<325, 1030, 1411, 149, 1616>>>>,
         <<-2, <<321, 152, 944, 556, 1060>>>>, <<-2, <<316, 1682, 1364, 1756, 83>>>>,
         <<-2, <<312, 1502, 100, 707, 1260>>>>, <<-2, <<308, 1637, 820, 973, 1098>>>>,
         <<-2, <<305, 21, 685, 2000, 1445>>>>, <<-2, <<301, 732, 186, 761, 1638>>>>,
         <<-2, <<297, 1705, 741, 1082, 1452>>>>, <<-2, <<294, 878, 299, 570, 719>>>>,
         <<-2, <<291, 284, 1258, 1423, 205>>>>, <<-2, <<287, 1959, 2041, 1395, 1272>>>>,
         <<-2, <<284, 1796, 980, 772, 1084>>>>, <<-2, <<281, 1831, 228, 1210, 1665>>>>,
         <<-2, <<279, 5, 1502, 128, 800>>>>, <<-2, <<276, 406, 1836, 1689, 1379>>>>,
         <<-2, <<273, 977, 1651, 726, 1492>>>>, <<-2, <<270, 1710, 534, 1071, 159>>>>,
         <<-2, <<268, 548, 1237, 1324, 1243>>>>, <<-2, <<265, 1581, 1389, 368, 465>>>>,
         <<-2, <<263, 706, 1602, 1589, 1133>>>>, <<-2, <<260, 2013, 1305, 1302, 1883>>>>,
         <<-2, <<258, 1400, 718, 378, 1897>>>>, <<-2, <<256, 909, 792, 529, 166>>>>,
         <<-3, <<508, 1071, 166, 309, 1593>>>>, <<-3, <<504, 547, 1684, 1519, 1625>>>>,
         <<-3, <<500, 239, 1560, 532, 1603>>>>, <<-3, <<496, 138, 380, 1831, 1050>>>>,
         <<-3, <<492, 234, 1778, 316, 777>>>>, <<-3, <<488, 522, 68, 1248, 1400>>>> >>,
      << \* parent_visit_count = 39
         <<0, <<489, 2037, 1881, 1686, 110>>>>, <<0, <<346, 980, 1369, 654, 1860>>>>,
         <<0, <<282, 1840, 1478, 453, 192>>>>, <<-1, <<489, 2037, 1881, 1686, 110>>>>,
         <<-1, <<438, 542, 1142, 1042, 43>>>>, <<-1, <<400, 162, 855, 817, 1641>>>>,
         <<-1, <<370, 822, 399, 1920, 1543>>>>, <<-1, <<346, 980, 1369, 654, 1860>>>>,
         <<-1, <<326, 1358, 1254, 1124, 73>>>>, <<-1, <<309, 1843, 818, 918, 1032>>>>,
         <<-1, <<295, 979, 511, 1480, 271>>>>, <<-1, <<282, 1840, 1478, 453, 192>>>>,
         <<-1, <<271, 1639, 304, 1961, 190>>>>, <<-1, <<261, 1870, 1258, 476, 815>>>>,
         <<-2, <<506, 132, 1203, 823, 741>>>>, <<-2, <<489, 2037, 1881, 1686, 110>>>>,
         <<-2, <<475, 747, 1273, 85, 1974>>>>, <<-2, <<461, 1990, 460, 873, 432>>>>,
         <<-2, <<449, 1331, 1757, 65, 553>>>>, <<-2, <<438, 542, 1142, 1042, 43>>>>,
         <<-2, <<427, 1439, 551, 1066, 894>>>>, <<-2, <<417, 1780, 275, 22, 1919>>>>,
         <<-2, <<408, 1401, 268, 276, 1928>>>>, <<-2, <<400, 162, 855, 817, 1641>>>>,
         <<-2, <<391, 2039, 1915, 120, 88>>>>, <<-2, <<384, 785, 1940, 722, 770>>>>,
         <<-2, <<377, 406, 605, 1286, 1621>>>>, <<-2, <<370, 822, 399, 1920, 1543>>>>,
         <<-2, <<363, 1964, 931, 1662, 939>>>>, <<-2, <<357, 1724, 52, 1097, 1550>>>>,
         <<-2, <<352, 46, 1655, 623, 1284>>>>, <<-2, <<346, 980, 1369, 654, 1860>>>>,
         <<-2, <<341, 386, 1264, 1785, 36>>>>, <<-2, <<336, 274, 256, 181, 239>>>>,
         <<-2, <<331, 608, 1110, 321, 464>>>>, <<-2, <<326, 1358, 1254, 1124, 73>>>>,
         <<-2, <<322, 448, 118, 117, 1139>>>>, <<-2, <<317, 1947, 451, 1718, 493>>>>,
         <<-2, <<313, 1736, 1561, 1346, 56>>>>, <<-2, <<309, 1843, 818, 918, 1032>>>>,
         <<-2, <<306, 199, 1385, 895, 470>>>>, <<-2, <<302, 883, 1574, 1031, 317>>>>,
         <<-2, <<298, 1831, 638, 1002, 175>>>>, <<-2, <<295, 979, 511, 1480, 271>>>>,
         <<-2, <<292, 361, 1444, 694, 1394>>>>, <<-2, <<288, 2013, 1765, 55, 1232>>>>,
         <<-2, <<285, 1827, 1767, 1412, 671>>>>, <<-2, <<282, 1840, 1478, 453, 192>>>>,
         <<-2, <<279, 2042, 490, 378, 648>>>>, <<-2, <<277, 374, 1914, 1343, 259>>>>,
         <<-2, <<274, 925, 2009, 1862, 1477>>>>, <<-2, <<271, 1639, 304, 1961, 190>>>>,
         <<-2, <<269, 458, 1543, 471, 408>>>>, <<-2, <<266, 1473, 1252, 1910, 1094>>>>,
         <<-2, <<264, 580, 2046, 1664, 285>>>>, <<-2, <<261, 1870, 1258, 476, 815>>>>,
         <<-2, <<259, 1240, 1112, 1245, 1830>>>>, <<-2, <<257, 733, 473, 762, 1742>>>>,
         <<-3, <<510, 686, 1859, 1018, 1114>>>>, <<-3, <<506, 132, 1203, 823, 741>>>>,
         <<-3, <<501, 1842, 475, 24, 533>>>>, <<-3, <<497, 1711, 198, 1881, 1856>>>>,
         <<-3, <<493, 1778, 1898, 1195, 1374>>>>, <<-3, <<489, 2037, 1881, 1686, 110>>>> >>,
      << \* parent_visit_count = 40
         <<0, <<491, 1403, 883, 330, 475>>>>, <<0, <<347, 1380, 670, 1410, 88>>>>,
         <<0, <<283, 1791, 464, 1363, 521>>>>, <<-1, <<491, 1403, 883, 330, 475>>>>,
         <<-1, <<439, 1590, 1287, 986, 1099>>>>, <<-1, <<401, 940, 1496, 936, 1405>>>>,
         <<-1, <<371, 1390, 1746, 596, 368>>>>, <<-1, <<347, 1380, 670, 1410, 88>>>>,
         <<-1, <<327, 1618, 588, 1585, 999>>>>, <<-1, <<310, 1984, 1335, 1788, 1734>>>>,
         <<-1, <<296, 1018, 1270, 1034, 361>>>>, <<-1, <<283, 1791, 464, 1363, 521>>>>,
         <<-1, <<272, 1511, 513, 36, 1838>>>>, <<-1, <<262, 1672, 1782, 1866, 1904>>>>,
         <<-2, <<507, 1659, 1274, 560, 592>>>>, <<-2, <<491, 1403, 883, 330, 475>>>>,
         <<-2, <<477, 9, 1601, 550, 248>>>>, <<-2, <<463, 1157, 1576, 1880, 117>>>>,
         <<-2, <<451, 412, 736, 651, 511>>>>, <<-2, <<439, 1590, 1287, 986, 1099>>>>,
         <<-2, <<429, 364, 1484, 1657, 1880>>>>, <<-2, <<419, 636, 249, 1553, 899>>>>,
         <<-2, <<410, 192, 474, 1577, 1284>>>>, <<-2, <<401, 940, 1496, 936, 1405>>>>,
         <<-2, <<393, 713, 296, 1902, 1200>>>>, <<-2, <<385, 1453, 780, 1220, 1481>>>>,
         <<-2, <<378, 1022, 1984, 1817, 1377>>>>, <<-2, <<371, 1390, 1746, 596, 368>>>>,
         <<-2, <<365, 439, 1232, 1115, 22>>>>, <<-2, <<359, 155, 1959, 1349, 877>>>>,
         <<-2, <<353, 485, 1294, 1335, 1197>>>>, <<-2, <<347, 1380, 670, 1410, 88>>>>,
         <<-2, <<342, 748, 1854, 749, 1953>>>>, <<-2, <<337, 600, 1439, 1273, 16>>>>,
         <<-2, <<332, 900, 1948, 1778, 1922>>>>, <<-2, <<327, 1618, 588, 1585, 999>>>>,
         <<-2, <<323, 676, 684, 733, 1078>>>>, <<-2, <<319, 97, 709, 1082, 1357>>>>,
         <<-2, <<314, 1905, 1853, 355, 1716>>>>, <<-2, <<310, 1984, 1335, 1788, 1734>>>>,
         <<-2, <<307, 314, 135, 842, 1093>>>>, <<-2, <<303, 972, 533, 1536, 1656>>>>,
         <<-2, <<299, 1894, 1668, 255, 1222>>>>, <<-2, <<296, 1018, 1270, 1034, 361>>>>,
         <<-2, <<293, 377, 1540, 2023, 50>>>>, <<-2, <<289, 2007, 717, 1482, 2005>>>>,
         <<-2, <<286, 1799, 1058, 1757, 955>>>>, <<-2, <<283, 1791, 464, 1363, 521>>>>,
         <<-2, <<280, 1972, 504, 1358, 2027>>>>, <<-2, <<278, 285, 126, 1947, 480>>>>,
         <<-2, <<275, 816, 1671, 911, 474>>>>, <<-2, <<272, 1511, 513, 36, 1838>>>>,
         <<-2, <<270, 312, 1340, 1676, 109>>>>, <<-2, <<267, 1309, 1680, 624, 937>>>>,
         <<-2, <<265, 400, 0, 1477, 1553>>>>, <<-2, <<262, 1672, 1782, 1866, 1904>>>>,
         <<-2, <<260, 1026, 1018, 1056, 1557>>>>, <<-2, <<258, 503, 627, 1485, 115>>>>,
         <<-2, <<256, 98, 114, 1757, 1186>>>>, <<-3, <<507, 1659, 1274, 560, 592>>>>,
         <<-3, <<503, 1291, 1724, 395, 588>>>>, <<-3, <<499, 1131, 2042, 608, 105>>>>,
         <<-3, <<495, 1171, 1645, 1477, 1173>>>>, <<-3, <<491, 1403, 883, 330, 475>>>> >>,
      << \* parent_visit_count = 41
         <<0, <<493, 672, 85, 455, 1692>>>>, <<0, <<348, 1711, 954, 2017, 1967>>>>,
         <<0, <<284, 1685, 1608, 1848, 1363>>>>, <<-1, <<493, 672, 85, 455, 1692>>>>,
         <<-1, <<441, 504, 56, 1349, 1209>>>>, <<-1, <<402, 1639, 1891, 943, 472>>>>,
         <<-1, <<372, 1886, 530, 1139, 314>>>>, <<-1, <<348, 1711, 954, 2017, 1967>>>>,
         <<-1, <<328, 1813, 739, 986, 1128>>>>, <<-1, <<312, 16, 1267, 329, 870>>>>,
         <<-1, <<297, 999, 1140, 517, 717>>>>, <<-1, <<284, 1685, 1608, 1848, 1363>>>>,
         <<-1, <<273, 1329, 1229, 1838, 446>>>>, <<-1, <<263, 1423, 676, 1603, 1839>>>>,
         <<-2, <<509, 1038, 1181, 853, 992>>>>, <<-2, <<493, 672, 85, 455, 1692>>>>,
         <<-2, <<478, 1225, 1911, 1222, 1321>>>>, <<-2, <<465, 233, 1955, 2007, 1941>>>>,
         <<-2, <<452, 1451, 1920, 1131, 566>>>>, <<-2, <<441, 504, 56, 1349, 1209>>>>,
         <<-2, <<430, 1253, 1224, 268, 1556>>>>, <<-2, <<420, 1457, 965, 567, 1625>>>>,
         <<-2, <<411, 950, 1046, 537, 1293>>>>, <<-2, <<402, 1639, 1891, 943, 472>>>>,
         <<-2, <<394, 1356, 1706, 1183, 1763>>>>, <<-2, <<386, 2044, 1635, 1458, 237>>>>,
         <<-2, <<379, 1565, 97, 416, 1817>>>>, <<-2, <<372, 1886, 530, 1139, 314>>>>,
         <<-2, <<366, 890, 1580, 815, 1414>>>>, <<-2, <<360, 565, 247, 1104, 2040>>>>,
         <<-2, <<354, 854, 1719, 1065, 625>>>>, <<-2, <<348, 1711, 954, 2017, 1967>>>>,
         <<-2, <<343, 1043, 1473, 703, 158>>>>, <<-2, <<338, 860, 1651, 1962, 371>>>>,
         <<-2, <<333, 1127, 1727, 662, 20>>>>, <<-2, <<328, 1813, 739, 986, 1128>>>>,
         <<-2, <<324, 840, 1819, 558, 1864>>>>, <<-2, <<320, 232, 1216, 881, 374>>>>,
         <<-2, <<315, 2012, 2007, 1191, 1938>>>>, <<-2, <<312, 16, 1267, 329, 870>>>>,
         <<-2, <<308, 367, 1887, 731, 1022>>>>, <<-2, <<304, 1000, 1931, 1518, 271>>>>,
         <<-2, <<300, 1899, 425, 361, 752>>>>, <<-2, <<297, 999, 1140, 517, 717>>>>,
         <<-2, <<294, 336, 37, 1582, 806>>>>, <<-2, <<290, 1943, 1411, 1810, 2046>>>>,
         <<-2, <<287, 1714, 1295, 650, 1315>>>>, <<-2, <<284, 1685, 1608, 1848, 1363>>>>,
         <<-2, <<281, 1846, 1804, 260, 967>>>>, <<-2, <<279, 140, 763, 2023, 1983>>>>,
         <<-2, <<276, 653, 767, 1621, 1056>>>>, <<-2, <<273, 1329, 1229, 1838, 446>>>>,
         <<-2, <<271, 113, 642, 1416, 1713>>>>, <<-2, <<268, 1093, 578, 628, 1680>>>>,
         <<-2, <<266, 166, 1507, 1667, 1725>>>>, <<-2, <<263, 1423, 676, 1603, 1839>>>>,
         <<-2, <<261, 761, 228, 510, 2012>>>>, <<-2, <<259, 222, 996, 532, 675>>>>,
         <<-2, <<256, 1850, 401, 537, 536>>>>, <<-3, <<509, 1038, 1181, 853, 992>>>>,
         <<-3, <<505, 642, 400, 1267, 394>>>>, <<-3, <<501, 454, 910, 1868, 341>>>>,
         <<-3, <<497, 467, 24, 1518, 1783>>>>, <<-3, <<493, 672, 85, 455, 1692>>>> >>,
      << \* parent_visit_count = 42
         <<0, <<494, 1896, 1640, 1035, 1971>>>>, <<0, <<349, 1977, 1344, 1792, 1635>>>>,
         <<0, <<285, 1527, 643, 678, 1187>>>>, <<-1, <<494, 1896, 1640, 1035, 1971>>>>,
         <<-1, <<442, 1383, 558, 904, 137>>>>, <<-1, <<404, 216, 246, 1344, 1631>>>>,
         <<-1, <<374, 264, 476, 899, 821>>>>, <<-1, <<349, 1977, 1344, 1792, 1635>>>>,
         <<-1, <<329, 1947, 411, 7, 1997>>>>, <<-1, <<313, 38, 1010, 1527, 1769>>>>,
         <<-1, <<298, 925, 214, 1910, 1664>>>>, <<-1, <<285, 1527, 643, 678, 1187>>>>,
         <<-1, <<274, 1097, 1, 1416, 889>>>>, <<-1, <<264, 1124, 1421, 439, 182>>>>,
         <<-2, <<511, 322, 1368, 1195, 975>>>>, <<-2, <<494, 1896, 1640, 1035, 1971>>>>,
         <<-2, <<480, 304, 1999, 1361, 1248>>>>, <<-2, <<466, 1271, 1110, 1025, 132>>>>,
         <<-2, <<454, 359, 466, 1019, 1779>>>>, <<-2, <<442, 1383, 558, 904, 137>>>>,
         <<-2, <<432, 14, 606, 1852, 678>>>>, <<-2, <<422, 152, 1003, 789, 730>>>>,
         <<-2, <<412, 1632, 370, 1065, 122>>>>, <<-2, <<404, 216, 246, 1344, 1631>>>>,
         <<-2, <<395, 1927, 83, 1238, 758>>>>, <<-2, <<388, 516, 332, 1214, 129>>>>,
         <<-2, <<380, 2036, 857, 1587, 901>>>>, <<-2, <<374, 264, 476, 899, 821>>>>,
         <<-2, <<367, 1273, 1467, 151, 923>>>>, <<-2, <<361, 907, 422, 1498, 633>>>>,
         <<-2, <<355, 1158, 121, 1261, 187>>>>, <<-2, <<349, 1977, 1344, 1792, 1635>>>>,
         <<-2, <<344, 1274, 1180, 1612, 357>>>>, <<-2, <<339, 1057, 1845, 748, 947>>>>,
         <<-2, <<334, 1292, 1295, 1389, 426>>>>, <<-2, <<329, 1947, 411, 7, 1997>>>>,
         <<-2, <<325, 945, 85, 618, 971>>>>, <<-2, <<321, 308, 492, 1926, 1978>>>>,
         <<-2, <<317, 13, 458, 1359, 1188>>>>, <<-2, <<313, 38, 1010, 1527, 1769>>>>,
         <<-2, <<309, 364, 815, 883, 1535>>>>, <<-2, <<305, 972, 1913, 490, 111>>>>,
         <<-2, <<301, 1847, 1171, 1493, 924>>>>, <<-2, <<298, 925, 214, 1910, 1664>>>>,
         <<-2, <<295, 239, 1054, 1968, 91>>>>, <<-2, <<291, 1825, 1756, 737, 916>>>>,
         <<-2, <<288, 1576, 320, 1370, 596>>>>, <<-2, <<285, 1527, 643, 678, 1187>>>>,
         <<-2, <<282, 1669, 59, 1469, 1419>>>>, <<-2, <<279, 1991, 1485, 1024, 1308>>>>,
         <<-2, <<277, 438, 997, 57, 1263>>>>, <<-2, <<274, 1097, 1, 1416, 889>>>>,
         <<-2, <<271, 1911, 1036, 1136, 1351>>>>, <<-2, <<269, 826, 1529, 1579, 405>>>>,
         <<-2, <<266, 1931, 1907, 1021, 423>>>>, <<-2, <<264, 1124, 1421, 439, 182>>>>,
         <<-2, <<262, 447, 126, 938, 433>>>>, <<-2, <<259, 1941, 868, 355, 1647>>>>,
         <<-2, <<257, 1506, 1031, 1878, 543>>>>, <<-3, <<511, 322, 1368, 1195, 975>>>>,
         <<-3, <<506, 1946, 956, 220, 954>>>>, <<-3, <<502, 1731, 1170, 1609, 886>>>>,
         <<-3, <<498, 1717, 1317, 1881, 1777>>>>, <<-3, <<494, 1896, 1640, 1035, 1971>>>> >>,
      << \* parent_visit_count = 43
         <<0, <<496, 986, 782, 961, 1328>>>>, <<0, <<351, 134, 414, 2022, 1521>>>>,
         <<0, <<286, 1318, 1044, 1804, 1009>>>>, <<-1, <<496, 986, 782, 961, 1328>>>>,
         <<-1, <<444, 136, 1112, 26, 1154>>>>, <<-1, <<405, 769, 279, 974, 665>>>>,
         <<-1, <<375, 624, 625, 1578, 308>>>>, <<-1, <<351, 134, 414, 2022, 1521>>>>,
         <<-1, <<330, 2022, 1886, 2006, 885>>>>, <<-1, <<314, 5, 474, 1814, 883>>>>,
         <<-1, <<299, 798, 169, 300, 1204>>>>, <<-1, <<286, 1318, 1044, 1804, 1009>>>>,
         <<-1, <<275, 816, 88, 1189, 465>>>>, <<-1, <<265, 779, 939, 606, 637>>>>,
         <<-1, <<256, 782, 739, 1094, 889>>>>, <<-2, <<496, 986, 782, 961, 1328>>>>,
         <<-2, <<481, 1347, 909, 431, 500>>>>, <<-2, <<468, 178, 1918, 1331, 1345>>>>,
         <<-2, <<455, 1234, 1059, 1417, 1180>>>>, <<-2, <<444, 136, 1112, 26, 1154>>>>,
         <<-2, <<433, 746, 1842, 76, 1190>>>>, <<-2, <<423, 821, 332, 1934, 1526>>>>,
         <<-2, <<414, 193, 285, 47, 436>>>>, <<-2, <<405, 769, 279, 974, 665>>>>,
         <<-2, <<397, 379, 1035, 1178, 1882>>>>, <<-2, <<389, 967, 282, 285, 1102>>>>,
         <<-2, <<382, 392, 1393, 357, 2028>>>>, <<-2, <<375, 624, 625, 1578, 308>>>>,
         <<-2, <<368, 1591, 1856, 1201, 1406>>>>, <<-2, <<362, 1185, 1281, 1596, 517>>>>,
         <<-2, <<356, 1398, 1327, 1722, 225>>>>, <<-2, <<351, 134, 414, 2022, 1521>>>>,
         <<-2, <<345, 1444, 1496, 27, 1292>>>>, <<-2, <<340, 1195, 392, 897, 262>>>>,
         <<-2, <<335, 1398, 980, 140, 1461>>>>, <<-2, <<330, 2022, 1886, 2006, 885>>>>,
         <<-2, <<326, 991, 1775, 578, 1418>>>>, <<-2, <<322, 327, 652, 1116, 1091>>>>,
         <<-2, <<318, 5, 1287, 1593, 1528>>>>, <<-2, <<314, 5, 474, 1814, 883>>>>,
         <<-2, <<310, 306, 849, 1285, 1290>>>>, <<-2, <<306, 891, 240, 1315, 1455>>>>,
         <<-2, <<302, 1742, 1553, 200, 1816>>>>, <<-2, <<299, 798, 169, 300, 1204>>>>,
         <<-2, <<296, 91, 58, 1383, 86>>>>, <<-2, <<292, 1656, 1250, 1864, 381>>>>,
         <<-2, <<289, 1386, 1670, 631, 575>>>>, <<-2, <<286, 1318, 1044, 1804, 1009>>>>,
         <<-2, <<283, 1441, 739, 1427, 466>>>>, <<-2, <<280, 1745, 1560, 1618, 398>>>>,
         <<-2, <<278, 174, 1575, 251, 1561>>>>, <<-2, <<275, 816, 88, 1189, 465>>>>,
         <<-2, <<272, 1613, 1636, 558, 1570>>>>, <<-2, <<270, 512, 1551, 1332, 443>>>>,
         <<-2, <<267, 1602, 217, 320, 735>>>>, <<-2, <<265, 779, 939, 606, 637>>>>,
         <<-2, <<263, 86, 1687, 337, 1000>>>>, <<-2, <<260, 1566, 1173, 1213, 409>>>>,
         <<-2, <<258, 1117, 846, 352, 843>>>>, <<-2, <<256, 782, 739, 1094, 889>>>>,
         <<-3, <<508, 1113, 904, 1246, 811>>>>, <<-3, <<504, 872, 256, 1018, 1610>>>>,
         <<-3, <<500, 832, 834, 738, 1777>>>>, <<-3, <<496, 986, 782, 961, 1328>>>> >>,
      << \* parent_visit_count = 44
         <<0, <<497, 2041, 236, 796, 499>>>>, <<0, <<352, 280, 340, 1734, 156>>>>,
         <<0, <<287, 1061, 1790, 471, 1377>>>>, <<-1, <<497, 2041, 236, 796, 499>>>>,
         <<-1, <<445, 863, 1458, 602, 1774>>>>, <<-1, <<406, 1254, 1039, 1332, 1109>>>>,
         <<-1, <<376, 921, 1539, 188, 1906>>>>, <<-1, <<352, 280, 340, 1734, 156>>>>,
         <<-1, <<331, 2043, 840, 530, 1698>>>>, <<-1, <<314, 1967, 1173, 5, 1155>>>>,
         <<-1, <<300, 621, 207, 548, 1742>>>>, <<-1, <<287, 1061, 1790, 471, 1377>>>>,
         <<-1, <<276, 489, 266, 723, 1441>>>>, <<-1, <<266, 389, 1923, 1751, 299>>>>,
         <<-1, <<257, 336, 1240, 1044, 599>>>>, <<-2, <<497, 2041, 236, 796, 499>>>>,
         <<-2, <<483, 261, 1100, 1423, 127>>>>, <<-2, <<469, 1056, 454, 946, 1573>>>>,
         <<-2, <<456, 2033, 1599, 286, 1325>>>>, <<-2, <<445, 863, 1458, 602, 1774>>>>,
         <<-2, <<434, 1407, 383, 548, 1836>>>>, <<-2, <<424, 1419, 373, 1430, 69>>>>,
         <<-2, <<415, 732, 2043, 529, 52>>>>, <<-2, <<406, 1254, 1039, 1332, 1109>>>>,
         <<-2, <<398, 813, 1417, 1865, 1629>>>>, <<-2, <<390, 1353, 249, 2014, 953>>>>,
         <<-2, <<383, 733, 338, 1994, 471>>>>, <<-2, <<376, 921, 1539, 188, 1906>>>>,
         <<-2, <<369, 1848, 1144, 1779, 859>>>>, <<-2, <<363, 1403, 1109, 1813, 1981>>>>,
         <<-2, <<357, 1579, 1470, 145, 16>>>>, <<-2, <<352, 280, 340, 1734, 156>>>>,
         <<-2, <<346, 1557, 402, 1623, 724>>>>, <<-2, <<341, 1275, 1329, 918, 564>>>>,
         <<-2, <<336, 1448, 633, 448, 428>>>>, <<-2, <<331, 2043, 840, 530, 1698>>>>,
         <<-2, <<327, 984, 433, 1257, 948>>>>, <<-2, <<323, 292, 1306, 796, 274>>>>,
         <<-2, <<318, 1992, 1983, 1653, 1963>>>>, <<-2, <<314, 1967, 1173, 5, 1155>>>>,
         <<-2, <<311, 196, 1386, 1102, 0>>>>, <<-2, <<307, 758, 340, 381, 515>>>>,
         <<-2, <<303, 1587, 835, 1003, 1573>>>>, <<-2, <<300, 621, 207, 548, 1742>>>>,
         <<-2, <<296, 1941, 289, 1084, 1183>>>>, <<-2, <<293, 1438, 1030, 712, 780>>>>,
         <<-2, <<290, 1149, 279, 209, 194>>>>, <<-2, <<287, 1061, 1790, 471, 1377>>>>,
         <<-2, <<284, 1166, 720, 454, 2041>>>>, <<-2, <<281, 1452, 1911, 158, 944>>>>,
         <<-2, <<278, 1912, 1325, 1769, 333>>>>, <<-2, <<276, 489, 266, 723, 1441>>>>,
         <<-2, <<273, 1270, 1170, 2047, 1200>>>>, <<-2, <<271, 153, 1375, 1571, 57>>>>,
         <<-2, <<268, 1227, 1220, 1062, 1757>>>>, <<-2, <<266, 389, 1923, 1751, 299>>>>,
         <<-2, <<263, 1730, 1417, 872, 2038>>>>, <<-2, <<261, 1148, 426, 1817, 671>>>>,
         <<-2, <<259, 685, 366, 1540, 1256>>>>, <<-2, <<257, 336, 1240, 1044, 599>>>>,
         <<-3, <<510, 195, 1138, 1794, 268>>>>, <<-3, <<505, 1976, 1035, 490, 915>>>>,
         <<-3, <<501, 1911, 1369, 934, 1176>>>>, <<-3, <<497, 2041, 236, 796, 499>>>> >>,
      << \* parent_visit_count = 45
         <<0, <<499, 969, 45, 895, 699>>>>, <<0, <<353, 370, 801, 1228, 194>>>>,
         <<0, <<288, 759, 1489, 1963, 755>>>>, <<-1, <<499, 969, 45, 895, 699>>>>,
         <<-1, <<446, 1520, 771, 100, 89>>>>, <<-1, <<407, 1675, 1059, 353, 497>>>>,
         <<-1, <<377, 1159, 1249, 1249, 1799>>>>, <<-1, <<353, 370, 801, 1228, 194>>>>,
         <<-1, <<332, 2011, 712, 1962, 466>>>>, <<-1, <<315, 1832, 121, 977, 1626>>>>,
         <<-1, <<301, 396, 1199, 600, 1085>>>>, <<-1, <<288, 759, 1489, 1963, 755>>>>,
         <<-1, <<277, 118, 1007, 127, 482>>>>, <<-1, <<266, 2006, 584, 1591, 46>>>>,
         <<-1, <<257, 1898, 295, 1728, 170>>>>, <<-2, <<499, 969, 45, 895, 699>>>>,
         <<-2, <<484, 1147, 323, 838, 1930>>>>, <<-2, <<470, 1859, 386, 272, 259>>>>,
         <<-2, <<458, 712, 1449, 1955, 1531>>>>, <<-2, <<446, 1520, 771, 100, 89>>>>,
         <<-2, <<435, 1998, 1370, 1730, 1931>>>>, <<-2, <<425, 1949, 2004, 1281, 1194>>>>,
         <<-2, <<416, 1207, 225, 1710, 2027>>>>, <<-2, <<407, 1675, 1059, 353, 497>>>>,
         <<-2, <<399, 1184, 1674, 1535, 969>>>>, <<-2, <<391, 1677, 552, 669, 1886>>>>,
         <<-2, <<384, 1012, 1986, 1252, 1007>>>>, <<-2, <<377, 1159, 1249, 1249, 1799>>>>,
         <<-2, <<370, 2046, 1352, 1748, 554>>>>, <<-2, <<364, 1563, 1825, 350, 410>>>>,
         <<-2, <<358, 1704, 320, 1288, 172>>>>, <<-2, <<353, 370, 801, 1228, 194>>>>,
         <<-2, <<347, 1614, 1587, 744, 1194>>>>, <<-2, <<342, 1302, 65, 1390, 965>>>>,
         <<-2, <<337, 1444, 1727, 250, 1308>>>>, <<-2, <<332, 2011, 712, 1962, 466>>>>,
         <<-2, <<328, 924, 1475, 1460, 883>>>>, <<-2, <<324, 206, 1654, 323, 545>>>>,
         <<-2, <<319, 1881, 1677, 992, 1184>>>>, <<-2, <<315, 1832, 121, 977, 1626>>>>,
         <<-2, <<312, 37, 1426, 1299, 1819>>>>, <<-2, <<308, 576, 1150, 1494, 1969>>>>,
         <<-2, <<304, 1383, 1994, 643, 732>>>>, <<-2, <<301, 396, 1199, 600, 1085>>>>,
         <<-2, <<297, 1696, 514, 66, 1425>>>>, <<-2, <<294, 1173, 1855, 1051, 503>>>>,
         <<-2, <<291, 865, 951, 1934, 1847>>>>, <<-2, <<288, 759, 1489, 1963, 755>>>>,
         <<-2, <<285, 846, 611, 219, 107>>>>, <<-2, <<282, 1115, 1050, 1801, 1384>>>>,
         <<-2, <<279, 1558, 765, 1783, 548>>>>, <<-2, <<277, 118, 1007, 127, 482>>>>,
         <<-2, <<274, 884, 69, 999, 2013>>>>, <<-2, <<271, 1799, 1388, 1600, 1697>>>>,
         <<-2, <<269, 810, 1167, 632, 127>>>>, <<-2, <<266, 2006, 584, 1591, 46>>>>,
         <<-2, <<264, 1284, 1632, 704, 1552>>>>, <<-2, <<262, 688, 905, 785, 2006>>>>,
         <<-2, <<260, 211, 1834, 349, 1625>>>>, <<-2, <<257, 1898, 295, 1728, 170>>>>,
         <<-3, <<511, 1244, 1902, 322, 1115>>>>, <<-3, <<507, 952, 1633, 1959, 639>>>>,
         <<-3, <<503, 863, 983, 983, 1716>>>>, <<-3, <<499, 969, 45, 895, 699>>>> >>,
      << \* parent_visit_count = 46
         <<0, <<500, 1869, 1725, 400, 985>>>>, <<0, <<354, 407, 1069, 794, 1404>>>>,
         <<0, <<289, 414, 470, 670, 451>>>>, <<-1, <<500, 1869, 1725, 400, 985>>>>,
         <<-1, <<448, 61, 1805, 437, 1680>>>>, <<-1, <<408, 2035, 448, 128, 1193>>>>,
         <<-1, <<378, 1340, 1451, 867, 955>>>>, <<-1, <<354, 407, 1069, 794, 1404>>>>,
         <<-1, <<333, 1929, 467, 949, 1339>>>>, <<-1, <<316, 1649, 116, 1340, 377>>>>,
         <<-1, <<302, 126, 1620, 252, 1915>>>>, <<-1, <<289, 414, 470, 670, 451>>>>,
         <<-1, <<277, 1754, 415, 978, 1656>>>>, <<-1, <<267, 1534, 1016, 572, 1541>>>>,
         <<-1, <<258, 1372, 1860, 1897, 1262>>>>, <<-2, <<500, 1869, 1725, 400, 985>>>>,
         <<-2, <<485, 1959, 1912, 491, 313>>>>, <<-2, <<472, 543, 743, 376, 1872>>>>,
         <<-2, <<459, 1370, 1497, 103, 1188>>>>, <<-2, <<448, 61, 1805, 437, 1680>>>>,
         <<-2, <<437, 476, 1250, 1227, 255>>>>, <<-2, <<427, 368, 1517, 1719, 1540>>>>,
         <<-2, <<417, 1618, 1221, 586, 1462>>>>, <<-2, <<408, 2035, 448, 128, 1193>>>>,
         <<-2, <<400, 1495, 1789, 1549, 378>>>>, <<-2, <<392, 1942, 1053, 1719, 322>>>>,
         <<-2, <<385, 1234, 1992, 893, 1285>>>>, <<-2, <<378, 1340, 1451, 867, 955>>>>,
         <<-2, <<372, 140, 2025, 1914, 1560>>>>, <<-2, <<365, 1669, 829, 823, 1304>>>>,
         <<-2, <<359, 1774, 1334, 656, 1271>>>>, <<-2, <<354, 407, 1069, 794, 1404>>>>,
         <<-2, <<348, 1620, 143, 355, 1663>>>>, <<-2, <<343, 1276, 1855, 1144, 1052>>>>,
         <<-2, <<338, 1390, 1248, 1231, 361>>>>, <<-2, <<333, 1929, 467, 949, 1339>>>>,
         <<-2, <<329, 815, 1746, 1001, 1841>>>>, <<-2, <<325, 72, 522, 91, 1765>>>>,
         <<-2, <<320, 1722, 1178, 1776, 1422>>>>, <<-2, <<316, 1649, 116, 1340, 377>>>>,
         <<-2, <<312, 1879, 1658, 1679, 45>>>>, <<-2, <<309, 348, 1255, 1781, 606>>>>,
         <<-2, <<305, 1134, 1509, 1783, 178>>>>, <<-2, <<302, 126, 1620, 252, 1915>>>>,
         <<-2, <<298, 1406, 1203, 974, 1120>>>>, <<-2, <<295, 865, 51, 1599, 809>>>>,
         <<-2, <<292, 537, 2013, 1833, 133>>>>, <<-2, <<289, 414, 470, 670, 451>>>>,
         <<-2, <<286, 483, 693, 521, 855>>>>, <<-2, <<283, 735, 1265, 226, 304>>>>,
         <<-2, <<280, 1162, 89, 751, 1211>>>>, <<-2, <<277, 1754, 415, 978, 1656>>>>,
         <<-2, <<275, 456, 492, 482, 1168>>>>, <<-2, <<272, 1356, 1664, 85, 1478>>>>,
         <<-2, <<270, 353, 92, 1630, 636>>>>, <<-2, <<267, 1534, 1016, 572, 1541>>>>,
         <<-2, <<265, 799, 246, 129, 1763>>>>, <<-2, <<263, 189, 488, 185, 965>>>>,
         <<-2, <<260, 1747, 1045, 404, 1646>>>>, <<-2, <<258, 1372, 1860, 1897, 1262>>>>,
         <<-2, <<256, 1108, 1424, 126, 1152>>>>, <<-3, <<508, 1900, 1642, 1620, 10>>>>,
         <<-3, <<504, 1787, 1252, 1156, 1274>>>>, <<-3, <<500, 1869, 1725, 400, 985>>>> >>,
      << \* parent_visit_count = 47
         <<0, <<502, 651, 123, 1231, 1927>>>>, <<0, <<355, 394, 46, 167, 794>>>>,
         <<0, <<290, 27, 803, 556, 332>>>>, <<-1, <<502, 651, 123, 1231, 1927>>>>,
         <<-1, <<449, 587, 703, 749, 383>>>>, <<-1, <<410, 288, 936, 1618, 859>>>>,
         <<-1, <<379, 1467, 1394, 1625, 1833>>>>, <<-1, <<355, 394, 46, 167, 794>>>>,
         <<-1, <<334, 1799, 765, 138, 1285>>>>, <<-1, <<317, 1420, 1575, 1427, 78>>>>,
         <<-1, <<302, 1861, 1676, 1825, 46>>>>, <<-1, <<290, 27, 803, 556, 332>>>>,
         <<-1, <<278, 1302, 401, 1857, 259>>>>, <<-1, <<268, 1024, 888, 1397, 1790>>>>,
         <<-1, <<259, 810, 1428, 1516, 1525>>>>, <<-2, <<502, 651, 123, 1231, 1927>>>>,
         <<-2, <<487, 655, 502, 126, 1063>>>>, <<-2, <<473, 1208, 61, 905, 1742>>>>,
         <<-2, <<460, 1963, 96, 1663, 1240>>>>, <<-2, <<449, 587, 703, 749, 383>>>>,
         <<-2, <<438, 940, 107, 587, 1689>>>>, <<-2, <<428, 774, 902, 1818, 1996>>>>,
         <<-2, <<418, 1970, 741, 808, 1313>>>>, <<-2, <<410, 288, 936, 1618, 859>>>>,
         <<-2, <<401, 1749, 1327, 1395, 313>>>>, <<-2, <<394, 103, 1208, 840, 1995>>>>,
         <<-2, <<386, 1401, 1753, 1424, 443>>>>, <<-2, <<379, 1467, 1394, 1625, 1833>>>>,
         <<-2, <<373, 230, 272, 1134, 1848>>>>, <<-2, <<366, 1722, 1285, 1907, 419>>>>,
         <<-2, <<360, 1793, 1445, 1545, 1477>>>>, <<-2, <<355, 394, 46, 167, 794>>>>,
         <<-2, <<349, 1575, 1039, 107, 440>>>>, <<-2, <<344, 1202, 1354, 616, 583>>>>,
         <<-2, <<339, 1287, 1974, 879, 1809>>>>, <<-2, <<334, 1799, 765, 138, 1285>>>>,
         <<-2, <<330, 659, 1842, 1036, 592>>>>, <<-2, <<325, 1939, 492, 937, 103>>>>,
         <<-2, <<321, 1517, 962, 1258, 100>>>>, <<-2, <<317, 1420, 1575, 1427, 78>>>>,
         <<-2, <<313, 1629, 396, 1798, 1801>>>>, <<-2, <<310, 76, 964, 3, 1921>>>>,
         <<-2, <<306, 841, 1687, 83, 1130>>>>, <<-2, <<302, 1861, 1676, 1825, 46>>>>,
         <<-2, <<299, 1074, 468, 1864, 1620>>>>, <<-2, <<296, 513, 1875, 1427, 1823>>>>,
         <<-2, <<293, 168, 1484, 997, 149>>>>, <<-2, <<290, 27, 803, 556, 332>>>>,
         <<-2, <<287, 79, 948, 703, 1979>>>>, <<-2, <<284, 315, 446, 953, 226>>>>,
         <<-2, <<281, 725, 1245, 567, 1215>>>>, <<-2, <<278, 1302, 401, 1857, 259>>>>,
         <<-2, <<275, 2037, 216, 56, 830>>>>, <<-2, <<273, 874, 1989, 1761, 1255>>>>,
         <<-2, <<270, 1904, 1845, 1678, 1905>>>>, <<-2, <<268, 1024, 888, 1397, 1790>>>>,
         <<-2, <<266, 275, 1039, 606, 1480>>>>, <<-2, <<263, 1700, 874, 2018, 1801>>>>,
         <<-2, <<261, 1197, 1715, 1869, 148>>>>, <<-2, <<259, 810, 1428, 1516, 1525>>>>,
         <<-2, <<257, 534, 523, 81, 1621>>>>, <<-3, <<510, 728, 119, 1766, 116>>>>,
         <<-3, <<506, 591, 1177, 119, 1762>>>>, <<-3, <<502, 651, 123, 1231, 1927>>>> >>,
      << \* parent_visit_count = 48
         <<0, <<503, 1411, 1899, 409, 538>>>>, <<0, <<356, 332, 391, 2012, 1884>>>>,
         <<0, <<290, 1649, 189, 213, 707>>>>, <<-1, <<503, 1411, 1899, 409, 538>>>>,
         <<-1, <<450, 1051, 1373, 181, 14>>>>, <<-1, <<411, 533, 1818, 69, 624>>>>,
         <<-1, <<380, 1542, 2017, 221, 153>>>>, <<-1, <<356, 332, 391, 2012, 1884>>>>,
         <<-1, <<335, 1623, 1948, 1638, 358>>>>, <<-1, <<318, 1149, 517, 1716, 858>>>>,
         <<-1, <<303, 1507, 1288, 1740, 43>>>>, <<-1, <<290, 1649, 189, 213, 707>>>>,
         <<-1, <<279, 812, 563, 1730, 205>>>>, <<-1, <<269, 477, 1713, 260, 1833>>>>,
         <<-1, <<260, 213, 389, 1522, 1701>>>>, <<-2, <<503, 1411, 1899, 409, 538>>>>,
         <<-2, <<488, 1332, 504, 1254, 1692>>>>, <<-2, <<474, 1808, 522, 1318, 1147>>>>,
         <<-2, <<462, 444, 1311, 1105, 1135>>>>, <<-2, <<450, 1051, 1373, 181, 14>>>>,
         <<-2, <<439, 1343, 1704, 1972, 528>>>>, <<-2, <<429, 1121, 1742, 403, 1420>>>>,
         <<-2, <<420, 217, 243, 1578, 879>>>>, <<-2, <<411, 533, 1818, 69, 624>>>>,
         <<-2, <<402, 1948, 1519, 737, 20>>>>, <<-2, <<395, 259, 95, 886, 1252>>>>,
         <<-2, <<387, 1516, 252, 284, 942>>>>, <<-2, <<380, 1542, 2017, 221, 153>>>>,
         <<-2, <<374, 268, 1038, 1134, 1684>>>>, <<-2, <<367, 1725, 1913, 966, 347>>>>,
         <<-2, <<361, 1763, 1342, 1169, 1114>>>>, <<-2, <<356, 332, 391, 2012, 1884>>>>,
         <<-2, <<350, 1483, 719, 849, 1138>>>>, <<-2, <<345, 1081, 1081, 1288, 1009>>>>,
         <<-2, <<340, 1139, 214, 1240, 960>>>>, <<-2, <<335, 1623, 1948, 1638, 358>>>>,
         <<-2, <<331, 458, 2046, 809, 2009>>>>, <<-2, <<326, 1713, 1790, 61, 1939>>>>,
         <<-2, <<322, 1268, 1197, 1242, 1490>>>>, <<-2, <<318, 1149, 517, 1716, 858>>>>,
         <<-2, <<314, 1335, 1800, 758, 263>>>>, <<-2, <<310, 1810, 288, 1780, 1176>>>>,
         <<-2, <<307, 507, 443, 1021, 998>>>>, <<-2, <<303, 1507, 1288, 1740, 43>>>>,
         <<-2, <<300, 701, 232, 1486, 9>>>>, <<-2, <<297, 122, 1014, 527, 724>>>>,
         <<-2, <<293, 1807, 1200, 1463, 361>>>>, <<-2, <<290, 1649, 189, 213, 707>>>>,
         <<-2, <<287, 1684, 1085, 526, 893>>>>, <<-2, <<284, 1904, 313, 1200, 1507>>>>,
         <<-2, <<282, 250, 1819, 270, 1609>>>>, <<-2, <<279, 812, 563, 1730, 205>>>>,
         <<-2, <<276, 1532, 851, 716, 909>>>>, <<-2, <<274, 355, 1894, 1411, 1098>>>>,
         <<-2, <<271, 1371, 1825, 1498, 1400>>>>, <<-2, <<269, 477, 1713, 260, 1833>>>>,
         <<-2, <<266, 1763, 1395, 1691, 528>>>>, <<-2, <<264, 1127, 1467, 631, 1423>>>>,
         <<-2, <<262, 612, 1169, 1618, 1738>>>>, <<-2, <<260, 213, 389, 1522, 1701>>>>,
         <<-2, <<257, 1972, 1658, 348, 1650>>>>, <<-3, <<511, 1533, 1782, 530, 113>>>>,
         <<-3, <<507, 1374, 1324, 294, 1569>>>>, <<-3, <<503, 1411, 1899, 409, 538>>>> >>,
      << \* parent_visit_count = 49
         <<0, <<505, 59, 986, 869, 816>>>>, <<0, <<357, 224, 363, 34, 686>>>>,
         <<0, <<291, 1185, 172, 714, 1798>>>>, <<-1, <<505, 59, 986, 869, 816>>>>,
         <<-1, <<451, 1457, 1187, 1834, 813>>>>, <<-1, <<412, 725, 2028, 798, 247>>>>,
         <<-1, <<381, 1568, 1878, 171, 1044>>>>, <<-1, <<357, 224, 363, 34, 686>>>>,
         <<-1, <<336, 1404, 2022, 1944, 1910>>>>, <<-1, <<319, 836, 878, 1005, 1700>>>>,
         <<-1, <<304, 1114, 112, 548, 1386>>>>, <<-1, <<291, 1185, 172, 714, 1798>>>>,
         <<-1, <<280, 286, 256, 1796, 1258>>>>, <<-1, <<269, 1944, 671, 1321, 241>>>>,
         <<-1, <<260, 1629, 1957, 382, 391>>>>, <<-2, <<505, 59, 986, 869, 816>>>>,
         <<-2, <<489, 1945, 1812, 1106, 1303>>>>, <<-2, <<476, 298, 1849, 728, 914>>>>,
         <<-2, <<463, 914, 611, 676, 606>>>>, <<-2, <<451, 1457, 1187, 1834, 813>>>>,
         <<-2, <<440, 1690, 1235, 26, 816>>>>, <<-2, <<430, 1413, 1150, 565, 1149>>>>,
         <<-2, <<421, 457, 822, 579, 642>>>>, <<-2, <<412, 725, 2028, 798, 247>>>>,
         <<-2, <<404, 47, 1198, 1514, 1472>>>>, <<-2, <<396, 363, 548, 379, 422>>>>,
         <<-2, <<388, 1580, 229, 1635, 1714>>>>, <<-2, <<381, 1568, 1878, 171, 1044>>>>,
         <<-2, <<375, 258, 753, 1726, 166>>>>, <<-2, <<368, 1681, 1112, 505, 1861>>>>,
         <<-2, <<362, 1686, 1399, 201, 104>>>>, <<-2, <<357, 224, 363, 34, 686>>>>,
         <<-2, <<351, 1345, 1469, 16, 1169>>>>, <<-2, <<346, 915, 1210, 200, 1751>>>>,
         <<-2, <<341, 946, 176, 537, 1890>>>>, <<-2, <<336, 1404, 2022, 1944, 1910>>>>,
         <<-2, <<332, 215, 306, 10, 1053>>>>, <<-2, <<327, 1446, 260, 842, 906>>>>,
         <<-2, <<323, 977, 1773, 804, 74>>>>, <<-2, <<319, 836, 878, 1005, 1700>>>>,
         <<-2, <<315, 1001, 1564, 858, 386>>>>, <<-2, <<311, 1455, 1023, 85, 1865>>>>,
         <<-2, <<308, 132, 1574, 1830, 899>>>>, <<-2, <<304, 1114, 112, 548, 1386>>>>,
         <<-2, <<301, 289, 109, 540, 542>>>>, <<-2, <<297, 1740, 1137, 518, 1167>>>>,
         <<-2, <<294, 1360, 697, 243, 1392>>>>, <<-2, <<291, 1185, 172, 714, 1798>>>>,
         <<-2, <<288, 1204, 563, 1374, 1051>>>>, <<-2, <<285, 1408, 290, 846, 1368>>>>,
         <<-2, <<282, 1787, 1200, 394, 96>>>>, <<-2, <<280, 286, 256, 1796, 1258>>>>,
         <<-2, <<277, 991, 1721, 144, 1583>>>>, <<-2, <<274, 1849, 669, 1214, 1530>>>>,
         <<-2, <<272, 803, 1340, 1358, 1180>>>>, <<-2, <<269, 1944, 671, 1321, 241>>>>,
         <<-2, <<267, 1169, 516, 774, 1065>>>>, <<-2, <<265, 520, 1437, 493, 1303>>>>,
         <<-2, <<262, 2041, 599, 407, 187>>>>, <<-2, <<260, 1629, 1957, 382, 391>>>>,
         <<-2, <<258, 1329, 1872, 526, 1119>>>>, <<-2, <<256, 1136, 1355, 2027, 636>>>>,
         <<-3, <<509, 43, 1821, 911, 709>>>>, <<-3, <<505, 59, 986, 869, 816>>>> >>,
      << \* parent_visit_count = 50
         <<0, <<506, 692, 1160, 1101, 934>>>>, <<0, <<358, 71, 2028, 1744, 352>>>>,
         <<0, <<292, 685, 19, 139, 1647>>>>, <<-1, <<506, 692, 1160, 1101, 934>>>>,
         <<-1, <<452, 1807, 1260, 556, 1646>>>>, <<-1, <<413, 867, 178, 1088, 1342>>>>,
         <<-1, <<382, 1547, 1283, 1420, 1813>>>>, <<-1, <<358, 71, 2028, 1744, 352>>>>,
         <<-1, <<337, 1144, 773, 1416, 1988>>>>, <<-1, <<320, 484, 196, 1249, 1935>>>>,
         <<-1, <<305, 682, 1658, 1444, 757>>>>, <<-1, <<292, 685, 19, 139, 1647>>>>,
         <<-1, <<280, 1773, 663, 346, 26>>>>, <<-1, <<270, 1329, 876, 1843, 1344>>>>,
         <<-1, <<261, 966, 946, 387, 1990>>>>, <<-2, <<506, 692, 1160, 1101, 934>>>>,
         <<-2, <<491, 450, 1883, 489, 586>>>>, <<-2, <<477, 778, 1339, 1642, 1834>>>>,
         <<-2, <<464, 1326, 1291, 1997, 1480>>>>, <<-2, <<452, 1807, 1260, 556, 1646>>>>,
         <<-2, <<441, 1982, 1732, 812, 747>>>>, <<-2, <<431, 1651, 2045, 450, 1242>>>>,
         <<-2, <<422, 645, 1189, 1777, 385>>>>, <<-2, <<413, 867, 178, 1088, 1342>>>>,
         <<-2, <<405, 144, 928, 881, 338>>>>, <<-2, <<397, 418, 990, 1659, 236>>>>,
         <<-2, <<389, 1596, 25, 869, 148>>>>, <<-2, <<382, 1547, 1283, 1420, 1813>>>>,
         <<-2, <<376, 201, 1695, 1701, 1279>>>>, <<-2, <<369, 1591, 1086, 1979, 827>>>>,
         <<-2, <<363, 1564, 1702, 1825, 207>>>>, <<-2, <<358, 71, 2028, 1744, 352>>>>,
         <<-2, <<352, 1164, 1198, 1293, 784>>>>, <<-2, <<347, 706, 1638, 886, 157>>>>,
         <<-2, <<342, 710, 1700, 1319, 1541>>>>, <<-2, <<337, 1144, 773, 1416, 1988>>>>,
         <<-2, <<332, 1978, 450, 1410, 432>>>>, <<-2, <<328, 1137, 1730, 475, 1811>>>>,
         <<-2, <<324, 647, 275, 1729, 1542>>>>, <<-2, <<320, 484, 196, 1249, 1935>>>>,
         <<-2, <<316, 628, 1278, 1613, 1797>>>>, <<-2, <<312, 1062, 616, 1464, 667>>>>,
         <<-2, <<308, 1768, 441, 783, 576>>>>, <<-2, <<305, 682, 1658, 1444, 757>>>>,
         <<-2, <<301, 1887, 1522, 1736, 1097>>>>, <<-2, <<298, 1273, 1583, 116, 1762>>>>,
         <<-2, <<295, 876, 1323, 698, 251>>>>, <<-2, <<292, 685, 19, 139, 1647>>>>,
         <<-2, <<289, 688, 663, 336, 1704>>>>, <<-2, <<286, 876, 1623, 166, 1101>>>>,
         <<-2, <<283, 1241, 602, 280, 1055>>>>, <<-2, <<280, 1773, 663, 346, 26>>>>,
         <<-2, <<278, 416, 1928, 1508, 656>>>>, <<-2, <<275, 1260, 1484, 725, 1577>>>>,
         <<-2, <<273, 201, 1483, 918, 1692>>>>, <<-2, <<270, 1329, 876, 1843, 1344>>>>,
         <<-2, <<268, 541, 1486, 395, 910>>>>, <<-2, <<265, 1928, 1795, 636, 753>>>>,
         <<-2, <<263, 1389, 988, 1299, 35>>>>, <<-2, <<261, 966, 946, 387, 1990>>>>,
         <<-2, <<259, 655, 51, 1371, 792>>>>, <<-2, <<257, 450, 1340, 1500, 1674>>>>,
         <<-3, <<510, 698, 346, 529, 369>>>>, <<-3, <<506, 692, 1160, 1101, 934>>>> >>,
      << \* parent_visit_count = 51
         <<0, <<507, 1265, 1734, 1557, 1559>>>>, <<0, <<358, 1925, 1056, 666, 830>>>>,
         <<0, <<293, 150, 831, 2026, 1909>>>>, <<-1, <<507, 1265, 1734, 1557, 1559>>>>,
         <<-1, <<454, 56, 327, 621, 1726>>>>, <<-1, <<414, 959, 724, 535, 1565>>>>,
         <<-1, <<383, 1481, 263, 428, 1328>>>>, <<-1, <<358, 1925, 1056, 666, 830>>>>,
         <<-1, <<338, 843, 1839, 355, 1722>>>>, <<-1, <<321, 93, 1923, 1321, 794>>>>,
         <<-1, <<306, 215, 1026, 2026, 1726>>>>, <<-1, <<293, 150, 831, 2026, 1909>>>>,
         <<-1, <<281, 1179, 713, 1723, 189>>>>, <<-1, <<271, 682, 1149, 1843, 736>>>>,
         <<-1, <<262, 272, 174, 1738, 586>>>>, <<-2, <<507, 1265, 1734, 1557, 1559>>>>,
         <<-2, <<492, 945, 1914, 2028, 179>>>>, <<-2, <<478, 1202, 43, 205, 1790>>>>,
         <<-2, <<465, 1684, 169, 747, 312>>>>, <<-2, <<454, 56, 327, 621, 1726>>>>,
         <<-2, <<443, 174, 1816, 1161, 1391>>>>, <<-2, <<432, 1839, 888, 1970, 1676>>>>,
         <<-2, <<423, 783, 1802, 332, 624>>>>, <<-2, <<414, 959, 724, 535, 1565>>>>,
         <<-2, <<406, 193, 978, 427, 18>>>>, <<-2, <<398, 426, 1608, 622, 1376>>>>,
         <<-2, <<390, 1565, 1791, 2019, 1863>>>>, <<-2, <<383, 1481, 263, 428, 1328>>>>,
         <<-2, <<377, 100, 1774, 82, 596>>>>, <<-2, <<370, 1457, 1727, 42, 1335>>>>,
         <<-2, <<364, 1400, 30, 1092, 200>>>>, <<-2, <<358, 1925, 1056, 666, 830>>>>,
         <<-2, <<353, 941, 1660, 421, 1882>>>>, <<-2, <<348, 456, 2014, 523, 606>>>>,
         <<-2, <<343, 435, 285, 1035, 1382>>>>, <<-2, <<338, 843, 1839, 355, 1722>>>>,
         <<-2, <<333, 1653, 1973, 188, 1559>>>>, <<-2, <<329, 790, 1548, 1240, 1354>>>>,
         <<-2, <<325, 278, 200, 781, 1215>>>>, <<-2, <<321, 93, 1923, 1321, 794>>>>,
         <<-2, <<317, 218, 256, 1179, 1292>>>>, <<-2, <<313, 632, 390, 324, 935>>>>,
         <<-2, <<309, 1319, 371, 1716, 2005>>>>, <<-2, <<306, 215, 1026, 2026, 1726>>>>,
         <<-2, <<302, 1402, 1583, 1097, 468>>>>, <<-2, <<299, 771, 1474, 332, 929>>>>,
         <<-2, <<296, 358, 119, 921, 1346>>>>, <<-2, <<293, 150, 831, 2026, 1909>>>>,
         <<-2, <<290, 138, 406, 305, 13>>>>, <<-2, <<287, 311, 1254, 1352, 664>>>>,
         <<-2, <<284, 661, 1033, 1271, 1604>>>>, <<-2, <<281, 1179, 713, 1723, 189>>>>,
         <<-2, <<278, 1857, 376, 1587, 204>>>>, <<-2, <<276, 639, 1165, 1039, 1726>>>>,
         <<-2, <<273, 1615, 1101, 1011, 23>>>>, <<-2, <<271, 682, 1149, 1843, 736>>>>,
         <<-2, <<268, 1930, 1052, 1181, 449>>>>, <<-2, <<266, 1257, 1311, 1618, 1274>>>>,
         <<-2, <<264, 706, 1083, 1997, 1893>>>>, <<-2, <<262, 272, 174, 1738, 586>>>>,
         <<-2, <<259, 1997, 1039, 634, 1816>>>>, <<-2, <<257, 1782, 545, 1288, 1015>>>>,
         <<-3, <<511, 1292, 350, 1936, 1771>>>>, <<-3, <<507, 1265, 1734, 1557, 1559>>>> >>,
      << \* parent_visit_count = 52
         <<0, <<508, 1781, 1686, 111, 260>>>>, <<0, <<359, 1690, 1066, 1033, 407>>>>,
         <<0, <<293, 1630, 1471, 1437, 647>>>>, <<-1, <<508, 1781, 1686, 111, 260>>>>,
         <<-1, <<455, 301, 921, 651, 691>>>>, <<-1, <<415, 1004, 1702, 1694, 337>>>>,
         <<-1, <<384, 1371, 639, 1460, 1202>>>>, <<-1, <<359, 1690, 1066, 1033, 407>>>>,
         <<-1, <<339, 505, 441, 756, 1538>>>>, <<-1, <<321, 1715, 1106, 770, 545>>>>,
         <<-1, <<306, 1761, 1305, 362, 1082>>>>, <<-1, <<293, 1630, 1471, 1437, 647>>>>,
         <<-1, <<282, 553, 1201, 1009, 171>>>>, <<-1, <<272, 5, 131, 1871, 167>>>>,
         <<-1, <<262, 1596, 239, 1265, 13>>>>, <<-2, <<508, 1781, 1686, 111, 260>>>>,
         <<-2, <<493, 1385, 731, 1754, 1009>>>>, <<-2, <<479, 1571, 739, 694, 1907>>>>,
         <<-2, <<466, 1988, 1942, 1668, 1219>>>>, <<-2, <<455, 301, 921, 651, 691>>>>,
         <<-2, <<444, 364, 1861, 954, 1152>>>>, <<-2, <<433, 1978, 0, 1379, 782>>>>,
         <<-2, <<424, 874, 786, 703, 361>>>>, <<-2, <<415, 1004, 1702, 1694, 337>>>>,
         <<-2, <<407, 196, 1348, 1727, 618>>>>, <<-2, <<399, 390, 273, 1801, 496>>>>,
         <<-2, <<391, 1491, 1279, 1233, 1546>>>>, <<-2, <<384, 1371, 639, 1460, 1202>>>>,
         <<-2, <<377, 2005, 696, 461, 974>>>>, <<-2, <<371, 1282, 628, 473, 1739>>>>,
         <<-2, <<365, 1194, 61, 64, 1733>>>>, <<-2, <<359, 1690, 1066, 1033, 407>>>>,
         <<-2, <<354, 679, 275, 1047, 352>>>>, <<-2, <<349, 167, 1754, 1059, 257>>>>,
         <<-2, <<344, 120, 1441, 508, 1214>>>>, <<-2, <<339, 505, 441, 756, 1538>>>>,
         <<-2, <<334, 1292, 48, 1514, 305>>>>, <<-2, <<330, 406, 990, 921, 1769>>>>,
         <<-2, <<325, 1920, 731, 90, 342>>>>, <<-2, <<321, 1715, 1106, 770, 545>>>>,
         <<-2, <<317, 1819, 1696, 1683, 1432>>>>, <<-2, <<314, 166, 1456, 201, 122>>>>,
         <<-2, <<310, 835, 394, 38, 271>>>>, <<-2, <<306, 1761, 1305, 362, 1082>>>>,
         <<-2, <<303, 883, 1296, 1799, 1144>>>>, <<-2, <<300, 235, 1782, 1530, 733>>>>,
         <<-2, <<296, 1854, 73, 660, 369>>>>, <<-2, <<293, 1630, 1471, 1437, 647>>>>,
         <<-2, <<290, 1603, 670, 1818, 1904>>>>, <<-2, <<287, 1762, 34, 7, 735>>>>,
         <<-2, <<285, 49, 1266, 1958, 1976>>>>, <<-2, <<282, 553, 1201, 1009, 171>>>>,
         <<-2, <<279, 1217, 1926, 1758, 1001>>>>, <<-2, <<276, 2035, 452, 1129, 907>>>>,
         <<-2, <<274, 950, 908, 1719, 799>>>>, <<-2, <<272, 5, 131, 1871, 167>>>>,
         <<-2, <<269, 1240, 1928, 1394, 638>>>>, <<-2, <<267, 556, 628, 697, 894>>>>,
         <<-2, <<264, 2041, 1503, 2031, 1607>>>>, <<-2, <<262, 1596, 239, 1265, 13>>>>,
         <<-2, <<260, 1262, 1313, 1773, 708>>>>, <<-2, <<258, 1036, 1572, 265, 1864>>>>,
         <<-2, <<256, 914, 426, 973, 1484>>>>, <<-3, <<508, 1781, 1686, 111, 260>>>> >>,
      << \* parent_visit_count = 53
         <<0, <<510, 194, 1729, 1946, 981>>>>, <<0, <<360, 1416, 1365, 1342, 1519>>>>,
         <<0, <<294, 1031, 620, 294, 574>>>>, <<-1, <<510, 194, 1729, 1946, 981>>>>,
         <<-1, <<456, 497, 1201, 1801, 1979>>>>, <<-1, <<416, 1005, 898, 1694, 2018>>>>,
         <<-1, <<385, 1219, 1954, 781, 676>>>>, <<-1, <<360, 1416, 1365, 1342, 1519>>>>,
         <<-1, <<340, 129, 1835, 1980, 654>>>>, <<-1, <<322, 1254, 787, 1808, 198>>>>,
         <<-1, <<307, 1226, 1298, 1495, 434>>>>, <<-1, <<294, 1031, 620, 294, 574>>>>,
         <<-1, <<282, 1945, 699, 165, 223>>>>, <<-1, <<272, 1346, 394, 1664, 872>>>>,
         <<-1, <<263, 843, 1577, 328, 1212>>>>, <<-2, <<510, 194, 1729, 1946, 981>>>>,
         <<-2, <<494, 1771, 953, 1453, 245>>>>, <<-2, <<480, 1888, 1820, 1790, 660>>>>,
         <<-2, <<468, 195, 787, 1412, 307>>>>, <<-2, <<456, 497, 1201, 1801, 1979>>>>,
         <<-2, <<445, 506, 1970, 1930, 308>>>>, <<-2, <<435, 21, 1435, 1314, 339>>>>,
         <<-2, <<425, 919, 107, 1036, 134>>>>, <<-2, <<416, 1005, 898, 1694, 2018>>>>,
         <<-2, <<408, 155, 1793, 1147, 1195>>>>, <<-2, <<400, 310, 762, 25, 1403>>>>,
         <<-2, <<392, 1375, 144, 392, 765>>>>, <<-2, <<385, 1219, 1954, 781, 676>>>>,
         <<-2, <<378, 1820, 2036, 619, 412>>>>, <<-2, <<372, 1066, 1304, 909, 956>>>>,
         <<-2, <<366, 948, 1155, 190, 184>>>>, <<-2, <<360, 1416, 1365, 1342, 1519>>>>,
         <<-2, <<355, 378, 394, 1777, 1669>>>>, <<-2, <<349, 1889, 63, 1845, 835>>>>,
         <<-2, <<344, 1817, 229, 125, 1989>>>>, <<-2, <<340, 129, 1835, 1980, 654>>>>,
         <<-2, <<335, 893, 1937, 1379, 2025>>>>, <<-2, <<330, 2034, 1129, 1842, 21>>>>,
         <<-2, <<326, 1479, 853, 1389, 1281>>>>, <<-2, <<322, 1254, 787, 1808, 198>>>>,
         <<-2, <<318, 1339, 413, 545, 1339>>>>, <<-2, <<314, 1715, 640, 565, 871>>>>,
         <<-2, <<311, 317, 1394, 1904, 1461>>>>, <<-2, <<307, 1226, 1298, 1495, 434>>>>,
         <<-2, <<304, 331, 1483, 1883, 2002>>>>, <<-2, <<300, 1715, 1250, 1020, 1432>>>>,
         <<-2, <<297, 1269, 1944, 602, 147>>>>, <<-2, <<294, 1031, 620, 294, 574>>>>,
         <<-2, <<291, 989, 110, 1697, 853>>>>, <<-2, <<288, 1133, 682, 1893, 806>>>>,
         <<-2, <<285, 1454, 1949, 287, 1065>>>>, <<-2, <<282, 1945, 699, 165, 223>>>>,
         <<-2, <<280, 548, 1030, 1323, 1588>>>>, <<-2, <<277, 1352, 1964, 1129, 2028>>>>,
         <<-2, <<275, 255, 1452, 1297, 919>>>>, <<-2, <<272, 1346, 394, 1664, 872>>>>,
         <<-2, <<270, 522, 519, 1468, 875>>>>, <<-2, <<267, 1874, 224, 208, 120>>>>,
         <<-2, <<265, 1300, 658, 647, 1081>>>>, <<-2, <<263, 843, 1577, 328, 1212>>>>,
         <<-2, <<261, 499, 1291, 1129, 188>>>>, <<-2, <<259, 263, 720, 1014, 1362>>>>,
         <<-2, <<257, 130, 1302, 1886, 451>>>>, <<-3, <<510, 194, 1729, 1946, 981>>>> >>,
      << \* parent_visit_count = 54
         <<0, <<511, 603, 248, 1581, 536>>>>, <<0, <<361, 1105, 1058, 762, 1768>>>>,
         <<0, <<295, 401, 890, 1206, 1101>>>>, <<-1, <<511, 603, 248, 1581, 536>>>>,
         <<-1, <<457, 646, 1121, 932, 1626>>>>, <<-1, <<417, 962, 2007, 2027, 1214>>>>,
         <<-1, <<386, 1028, 1484, 1623, 1542>>>>, <<-1, <<361, 1105, 1058, 762, 1768>>>>,
         <<-1, <<340, 1767, 848, 1054, 358>>>>, <<-1, <<323, 759, 1782, 1768, 796>>>>,
         <<-1, <<308, 659, 1689, 254, 1258>>>>, <<-1, <<295, 401, 890, 1206, 1101>>>>,
         <<-1, <<283, 1259, 1717, 731, 1549>>>>, <<-1, <<273, 611, 262, 38, 846>>>>,
         <<-1, <<264, 64, 380, 1761, 1424>>>>, <<-2, <<511, 603, 248, 1581, 536>>>>,
         <<-2, <<496, 58, 827, 1489, 187>>>>, <<-2, <<482, 108, 1411, 334, 992>>>>,
         <<-2, <<469, 401, 857, 1286, 261>>>>, <<-2, <<457, 646, 1121, 932, 1626>>>>,
         <<-2, <<446, 602, 1999, 1832, 1574>>>>, <<-2, <<436, 68, 861, 1900, 1038>>>>,
         <<-2, <<426, 919, 1492, 1769, 1876>>>>, <<-2, <<417, 962, 2007, 2027, 1214>>>>,
         <<-2, <<409, 72, 1837, 855, 838>>>>, <<-2, <<401, 189, 479, 907, 520>>>>,
         <<-2, <<393, 1217, 1870, 243, 786>>>>, <<-2, <<386, 1028, 1484, 1623, 1542>>>>,
         <<-2, <<379, 1597, 964, 695, 702>>>>, <<-2, <<373, 812, 917, 446, 372>>>>,
         <<-2, <<367, 665, 420, 1071, 761>>>>, <<-2, <<361, 1105, 1058, 762, 1768>>>>,
         <<-2, <<356, 40, 1074, 6, 563>>>>, <<-2, <<350, 1526, 47, 899, 1144>>>>,
         <<-2, <<345, 1429, 1757, 610, 1099>>>>, <<-2, <<340, 1767, 848, 1054, 358>>>>,
         <<-2, <<336, 461, 376, 793, 369>>>>, <<-2, <<331, 1580, 808, 40, 1301>>>>,
         <<-2, <<327, 1004, 1419, 925, 1864>>>>, <<-2, <<323, 759, 1782, 1768, 796>>>>,
         <<-2, <<319, 825, 1281, 984, 34>>>>, <<-2, <<315, 1183, 736, 817, 1796>>>>,
         <<-2, <<311, 1815, 2039, 1236, 968>>>>, <<-2, <<308, 659, 1689, 254, 1258>>>>,
         <<-2, <<304, 1796, 747, 1304, 1084>>>>, <<-2, <<301, 1116, 498, 1833, 1648>>>>,
         <<-2, <<298, 655, 181, 600, 781>>>>, <<-2, <<295, 401, 890, 1206, 1101>>>>,
         <<-2, <<292, 344, 1312, 903, 1184>>>>, <<-2, <<289, 474, 1665, 1839, 186>>>>,
         <<-2, <<286, 782, 1519, 861, 571>>>>, <<-2, <<283, 1259, 1717, 731, 1549>>>>,
         <<-2, <<280, 1898, 175, 186, 1875>>>>, <<-2, <<278, 641, 2021, 669, 127>>>>,
         <<-2, <<275, 1580, 1078, 394, 1072>>>>, <<-2, <<273, 611, 262, 38, 846>>>>,
         <<-2, <<270, 1823, 1271, 1617, 1165>>>>, <<-2, <<268, 1116, 428, 849, 935>>>>,
         <<-2, <<266, 531, 904, 114, 1670>>>>, <<-2, <<264, 64, 380, 1761, 1424>>>>,
         <<-2, <<261, 1757, 1242, 1047, 523>>>>, <<-2, <<259, 1511, 290, 205, 957>>>>,
         <<-2, <<257, 1368, 989, 1765, 346>>>>, <<-3, <<511, 603, 248, 1581, 536>>>> >>,
      << \* parent_visit_count = 55
         <<1, <<256, 480, 752, 1579, 1940>>>>, <<0, <<362, 758, 1111, 139, 483>>>>,
         <<0, <<295, 1790, 648, 606, 327>>>>, <<0, <<256, 480, 752, 1579, 1940>>>>,
         <<-1, <<458, 750, 397, 18, 1286>>>>, <<-1, <<418, 879, 319, 120, 341>>>>,
         <<-1, <<387, 799, 405, 1003, 1754>>>>, <<-1, <<362, 758, 1111, 139, 483>>>>,
         <<-1, <<341, 1323, 321, 58, 1222>>>>, <<-1, <<324, 233, 643, 1005, 436>>>>,
         <<-1, <<309, 62, 951, 122, 608>>>>, <<-1, <<295, 1790, 648, 606, 327>>>>,
         <<-1, <<284, 546, 477, 46, 1494>>>>, <<-1, <<273, 1896, 2012, 437, 1537>>>>,
         <<-1, <<264, 1306, 900, 272, 344>>>>, <<-1, <<256, 480, 752, 1579, 1940>>>>,
         <<-2, <<497, 344, 393, 1330, 1592>>>>, <<-2, <<483, 328, 1481, 868, 645>>>>,
         <<-2, <<470, 560, 1968, 1329, 20>>>>, <<-2, <<458, 750, 397, 18, 1286>>>>,
         <<-2, <<447, 654, 1573, 810, 165>>>>, <<-2, <<437, 71, 1915, 104, 1764>>>>,
         <<-2, <<427, 878, 306, 52, 1851>>>>, <<-2, <<418, 879, 319, 120, 341>>>>,
         <<-2, <<409, 1997, 794, 1708, 1466>>>>, <<-2, <<402, 28, 722, 740, 1797>>>>,
         <<-2, <<394, 1021, 1547, 125, 1119>>>>, <<-2, <<387, 799, 405, 1003, 1754>>>>,
         <<-2, <<380, 1336, 646, 1702, 1169>>>>, <<-2, <<374, 521, 531, 1689, 1290>>>>,
         <<-2, <<368, 345, 919, 1984, 1880>>>>, <<-2, <<362, 758, 1111, 139, 483>>>>,
         <<-2, <<356, 1715, 1185, 624, 1047>>>>, <<-2, <<351, 1128, 533, 1109, 918>>>>,
         <<-2, <<346, 1008, 716, 590, 495>>>>, <<-2, <<341, 1323, 321, 58, 1222>>>>,
         <<-2, <<336, 2043, 216, 464, 1108>>>>, <<-2, <<332, 1093, 743, 54, 182>>>>,
         <<-2, <<328, 497, 1062, 1812, 1730>>>>, <<-2, <<324, 233, 643, 1005, 436>>>>,
         <<-2, <<320, 280, 820, 1134, 1249>>>>, <<-2, <<316, 620, 279, 1358, 863>>>>,
         <<-2, <<312, 1235, 832, 941, 1347>>>>, <<-2, <<309, 62, 951, 122, 608>>>>,
         <<-2, <<305, 1182, 1630, 12, 858>>>>, <<-2, <<302, 486, 2042, 271, 727>>>>,
         <<-2, <<299, 10, 1367, 1276, 1928>>>>, <<-2, <<295, 1790, 648, 606, 327>>>>,
         <<-2, <<292, 1719, 567, 1513, 170>>>>, <<-2, <<289, 1835, 1298, 930, 1206>>>>,
         <<-2, <<287, 82, 317, 1162, 1894>>>>, <<-2, <<284, 546, 477, 46, 1494>>>>,
         <<-2, <<281, 1171, 1702, 980, 528>>>>, <<-2, <<278, 1951, 895, 762, 1593>>>>,
         <<-2, <<276, 830, 36, 1681, 268>>>>, <<-2, <<273, 1896, 2012, 437, 1537>>>>,
         <<-2, <<271, 1050, 299, 1032, 2014>>>>, <<-2, <<269, 331, 1432, 675, 897>>>>,
         <<-2, <<266, 1784, 365, 420, 1198>>>>, <<-2, <<264, 1306, 900, 272, 344>>>>,
         <<-2, <<262, 941, 1302, 88, 125>>>>, <<-2, <<260, 685, 398, 1152, 698>>>>,
         <<-2, <<258, 532, 1635, 1351, 1852>>>>, <<-2, <<256, 480, 752, 1579, 1940>>>> >>,
      << \* parent_visit_count = 56
         <<1, <<256, 1658, 1687, 1888, 247>>>>, <<0, <<363, 377, 270, 30, 1865>>>>,
         <<0, <<296, 1103, 165, 1987, 765>>>>, <<0, <<256, 1658, 1687, 1888, 247>>>>,
         <<-1, <<459, 810, 575, 1563, 440>>>>, <<-1, <<419, 755, 1162, 15, 1500>>>>,
         <<-1, <<388, 532, 1754, 2029, 1485>>>>, <<-1, <<363, 377, 270, 30, 1865>>>>,
         <<-1, <<342, 846, 885, 469, 1012>>>>, <<-1, <<324, 1723, 1959, 1988, 1910>>>>,
         <<-1, <<309, 1483, 1508, 890, 946>>>>, <<-1, <<296, 1103, 165, 1987, 765>>>>,
         <<-1, <<284, 1853, 1255, 1514, 1122>>>>, <<-1, <<274, 1108, 1649, 1953, 1992>>>>,
         <<-1, <<265, 475, 1114, 1395, 271>>>>, <<-1, <<256, 1658, 1687, 1888, 247>>>>,
         <<-2, <<498, 582, 1503, 90, 123>>>>, <<-2, <<484, 502, 1725, 723, 1804>>>>,
         <<-2, <<471, 675, 1665, 763, 1143>>>>, <<-2, <<459, 810, 575, 1563, 440>>>>,
         <<-2, <<448, 664, 104, 45, 1411>>>>, <<-2, <<438, 33, 1878, 1887, 588>>>>,
         <<-2, <<428, 795, 1947, 1132, 1258>>>>, <<-2, <<419, 755, 1162, 15, 1500>>>>,
         <<-2, <<410, 1834, 1881, 972, 2033>>>>, <<-2, <<402, 1877, 547, 2022, 1150>>>>,
         <<-2, <<395, 788, 221, 601, 1703>>>>, <<-2, <<388, 532, 1754, 2029, 1485>>>>,
         <<-2, <<381, 1038, 2021, 916, 1316>>>>, <<-2, <<375, 194, 1035, 1540, 2032>>>>,
         <<-2, <<368, 2038, 1445, 375, 604>>>>, <<-2, <<363, 377, 270, 30, 1865>>>>,
         <<-2, <<357, 1308, 1479, 1332, 1040>>>>, <<-2, <<352, 697, 183, 1266, 747>>>>,
         <<-2, <<347, 553, 1871, 1565, 1678>>>>, <<-2, <<342, 846, 885, 469, 1012>>>>,
         <<-2, <<337, 1545, 4, 926, 1861>>>>, <<-2, <<333, 574, 1495, 343, 866>>>>,
         <<-2, <<328, 2007, 310, 1167, 1070>>>>, <<-2, <<324, 1723, 1959, 1988, 1910>>>>,
         <<-2, <<320, 1752, 1541, 1022, 1429>>>>, <<-2, <<317, 26, 1751, 14, 1307>>>>,
         <<-2, <<313, 625, 225, 859, 672>>>>, <<-2, <<309, 1483, 1508, 890, 946>>>>,
         <<-2, <<306, 540, 383, 1724, 1659>>>>, <<-2, <<302, 1877, 58, 1698, 323>>>>,
         <<-2, <<299, 1385, 1704, 1125, 1280>>>>, <<-2, <<296, 1103, 165, 1987, 765>>>>,
         <<-2, <<293, 1018, 173, 1280, 282>>>>, <<-2, <<290, 1120, 1854, 843, 1901>>>>,
         <<-2, <<287, 1402, 594, 2043, 1583>>>>, <<-2, <<284, 1853, 1255, 1514, 1122>>>>,
         <<-2, <<282, 418, 1677, 688, 862>>>>, <<-2, <<279, 1186, 774, 1375, 1683>>>>,
         <<-2, <<277, 53, 496, 1062, 1692>>>>, <<-2, <<274, 1108, 1649, 1953, 1992>>>>,
         <<-2, <<272, 250, 1780, 996, 1608>>>>, <<-2, <<269, 1569, 1251, 69, 1484>>>>,
         <<-2, <<267, 963, 1134, 2014, 703>>>>, <<-2, <<265, 475, 1114, 1395, 271>>>>,
         <<-2, <<263, 100, 1480, 1566, 124>>>>, <<-2, <<260, 1882, 1039, 1703, 440>>>>,
         <<-2, <<258, 1720, 1169, 2035, 1673>>>>, <<-2, <<256, 1658, 1687, 1888, 247>>>> >>,
      << \* parent_visit_count = 57
         <<1, <<257, 765, 1754, 1887, 285>>>>, <<0, <<363, 2010, 1218, 196, 3>>>>,
         <<0, <<297, 388, 1634, 361, 60>>>>, <<0, <<257, 765, 1754, 1887, 285>>>>,
         <<-1, <<460, 828, 955, 665, 1365>>>>, <<-1, <<420, 593, 1490, 1561, 56>>>>,
         <<-1, <<389, 231, 209, 853, 1958>>>>, <<-1, <<363, 2010, 1218, 196, 3>>>>,
         <<-1, <<343, 338, 974, 1150, 1745>>>>, <<-1, <<325, 1136, 1987, 1939, 855>>>>,
         <<-1, <<310, 828, 1553, 448, 757>>>>, <<-1, <<297, 388, 1634, 361, 60>>>>,
         <<-1, <<285, 1087, 14, 272, 1365>>>>, <<-1, <<275, 295, 1203, 630, 1044>>>>,
         <<-1, <<265, 1668, 935, 1648, 1640>>>>, <<-1, <<257, 765, 1754, 1887, 285>>>>,
         <<-2, <<499, 775, 1692, 1624, 1086>>>>, <<-2, <<485, 632, 1624, 261, 687>>>>,
         <<-2, <<472, 747, 1381, 1161, 439>>>>, <<-2, <<460, 828, 955, 665, 1365>>>>,
         <<-2, <<449, 632, 903, 1221, 1296>>>>, <<-2, <<438, 2003, 1941, 442, 1858>>>>,
         <<-2, <<429, 674, 1390, 1, 712>>>>, <<-2, <<420, 593, 1490, 1561, 56>>>>,
         <<-2, <<411, 1634, 1988, 1381, 46>>>>, <<-2, <<403, 1641, 884, 1455, 991>>>>,
         <<-2, <<396, 518, 813, 1164, 80>>>>, <<-2, <<389, 231, 209, 853, 1958>>>>,
         <<-2, <<382, 706, 1762, 871, 738>>>>, <<-2, <<375, 1881, 1103, 1778, 1973>>>>,
         <<-2, <<369, 1650, 625, 1998, 1789>>>>, <<-2, <<363, 2010, 1218, 196, 3>>>>,
         <<-2, <<358, 869, 502, 1965, 641>>>>, <<-2, <<353, 233, 1600, 915, 273>>>>,
         <<-2, <<348, 67, 1645, 108, 847>>>>, <<-2, <<343, 338, 974, 1150, 1745>>>>,
         <<-2, <<338, 1016, 188, 192, 1350>>>>, <<-2, <<334, 25, 1430, 870, 580>>>>,
         <<-2, <<329, 1438, 1592, 1473, 48>>>>, <<-2, <<325, 1136, 1987, 1939, 855>>>>,
         <<-2, <<321, 1147, 1718, 1053, 1325>>>>, <<-2, <<317, 1452, 1348, 496, 163>>>>,
         <<-2, <<313, 2034, 484, 1851, 398>>>>, <<-2, <<310, 828, 1553, 448, 757>>>>,
         <<-2, <<306, 1917, 1319, 1126, 910>>>>, <<-2, <<303, 1191, 882, 1359, 268>>>>,
         <<-2, <<300, 685, 1357, 1672, 847>>>>, <<-2, <<297, 388, 1634, 361, 60>>>>,
         <<-2, <<294, 290, 250, 401, 618>>>>, <<-2, <<291, 379, 1384, 156, 1641>>>>,
         <<-2, <<288, 648, 380, 1781, 1482>>>>, <<-2, <<285, 1087, 14, 272, 1365>>>>,
         <<-2, <<282, 1688, 136, 696, 542>>>>, <<-2, <<280, 395, 1676, 1040, 1403>>>>,
         <<-2, <<277, 1299, 407, 1451, 1822>>>>, <<-2, <<275, 295, 1203, 630, 1044>>>>,
         <<-2, <<272, 1474, 1580, 1917, 250>>>>, <<-2, <<270, 734, 1877, 659, 1519>>>>,
         <<-2, <<268, 118, 1093, 460, 1836>>>>, <<-2, <<265, 1668, 935, 1648, 1640>>>>,
         <<-2, <<263, 1283, 1673, 1741, 21>>>>, <<-2, <<261, 1008, 45, 709, 1377>>>>,
         <<-2, <<259, 836, 1504, 1934, 1305>>>>, <<-2, <<257, 765, 1754, 1887, 285>>>> >>,
      << \* parent_visit_count = 58
         <<1, <<257, 1898, 698, 711, 1142>>>>, <<0, <<364, 1564, 346, 813, 603>>>>,
         <<0, <<297, 1696, 978, 1646, 152>>>>, <<0, <<257, 1898, 698, 711, 1142>>>>,
         <<-1, <<461, 806, 646, 725, 1239>>>>, <<-1, <<421, 395, 136, 1206, 384>>>>,
         <<-1, <<389, 1943, 526, 1823, 118>>>>, <<-1, <<364, 1564, 346, 813, 603>>>>,
         <<-1, <<343, 1848, 931, 266, 157>>>>, <<-1, <<326, 521, 946, 1780, 690>>>>,
         <<-1, <<311, 146, 1199, 700, 141>>>>, <<-1, <<297, 1696, 978, 1646, 152>>>>,
         <<-1, <<286, 295, 788, 1822, 415>>>>, <<-1, <<275, 1506, 540, 1271, 1436>>>>,
         <<-1, <<266, 790, 166, 1782, 1509>>>>, <<-1, <<257, 1898, 698, 711, 1142>>>>,
         <<-2, <<500, 925, 345, 17, 1381>>>>, <<-2, <<486, 720, 461, 1767, 122>>>>,
         <<-2, <<473, 778, 311, 399, 1358>>>>, <<-2, <<461, 806, 646, 725, 1239>>>>,
         <<-2, <<450, 561, 957, 1019, 1099>>>>, <<-2, <<439, 1887, 1063, 749, 31>>>>,
         <<-2, <<430, 515, 1623, 1217, 1288>>>>, <<-2, <<421, 395, 136, 1206, 384>>>>,
         <<-2, <<412, 1398, 1936, 1138, 1008>>>>, <<-2, <<404, 1370, 448, 1961, 1679>>>>,
         <<-2, <<397, 213, 1987, 1512, 202>>>>, <<-2, <<389, 1943, 526, 1823, 118>>>>,
         <<-2, <<383, 341, 484, 1538, 780>>>>, <<-2, <<376, 1487, 1306, 820, 494>>>>,
         <<-2, <<370, 1229, 1037, 2045, 933>>>>, <<-2, <<364, 1564, 346, 813, 603>>>>,
         <<-2, <<359, 398, 751, 1256, 79>>>>, <<-2, <<353, 1787, 1099, 866, 1261>>>>,
         <<-2, <<348, 1599, 412, 328, 1126>>>>, <<-2, <<343, 1848, 931, 266, 157>>>>,
         <<-2, <<339, 457, 1076, 1504, 794>>>>, <<-2, <<334, 1495, 827, 315, 92>>>>,
         <<-2, <<330, 841, 1061, 1371, 657>>>>, <<-2, <<326, 521, 946, 1780, 690>>>>,
         <<-2, <<322, 514, 1543, 466, 1165>>>>, <<-2, <<318, 802, 1284, 356, 1285>>>>,
         <<-2, <<314, 1367, 1749, 1713, 1030>>>>, <<-2, <<311, 146, 1199, 700, 141>>>>,
         <<-2, <<307, 1220, 430, 1849, 143>>>>, <<-2, <<304, 479, 484, 91, 1731>>>>,
         <<-2, <<300, 2007, 371, 448, 151>>>>, <<-2, <<297, 1696, 978, 1646, 152>>>>,
         <<-2, <<294, 1584, 798, 228, 135>>>>, <<-2, <<291, 1660, 1915, 1060, 483>>>>,
         <<-2, <<288, 1916, 1683, 557, 1542>>>>, <<-2, <<286, 295, 788, 1822, 415>>>>,
         <<-2, <<283, 884, 1097, 667, 41>>>>, <<-2, <<280, 1628, 1456, 804, 256>>>>,
         <<-2, <<278, 472, 1704, 162, 1676>>>>, <<-2, <<275, 1506, 540, 1271, 1436>>>>,
         <<-2, <<273, 626, 1600, 643, 29>>>>, <<-2, <<270, 1924, 1098, 429, 780>>>>,
         <<-2, <<268, 1298, 58, 1882, 2004>>>>, <<-2, <<266, 790, 166, 1782, 1509>>>>,
         <<-2, <<264, 395, 1669, 875, 774>>>>, <<-2, <<262, 110, 1284, 753, 359>>>>,
         <<-2, <<259, 1978, 351, 532, 1444>>>>, <<-2, <<257, 1898, 698, 711, 1142>>>> >>,
      << \* parent_visit_count = 59
         <<1, <<258, 961, 213, 1520, 619>>>>, <<0, <<365, 1087, 52, 1594, 551>>>>,
         <<0, <<298, 931, 157, 1426, 1140>>>>, <<0, <<258, 961, 213, 1520, 619>>>>,
         <<-1, <<462, 745, 633, 1903, 1767>>>>, <<-1, <<422, 160, 1916, 608, 1004>>>>,
         <<-1, <<390, 1574, 1174, 1699, 1237>>>>, <<-1, <<365, 1087, 52, 1594, 551>>>>,
         <<-1, <<344, 1281, 967, 1344, 826>>>>, <<-1, <<326, 1926, 981, 918, 1200>>>>,
         <<-1, <<311, 1486, 443, 1443, 147>>>>, <<-1, <<298, 931, 157, 1426, 1140>>>>,
         <<-1, <<286, 1527, 1365, 91, 1567>>>>, <<-1, <<276, 645, 1474, 1033, 239>>>>,
         <<-1, <<266, 1937, 559, 53, 1008>>>>, <<-1, <<258, 961, 213, 1520, 619>>>>,
         <<-2, <<501, 1032, 749, 1076, 1528>>>>, <<-2, <<487, 766, 1435, 1443, 53>>>>,
         <<-2, <<474, 768, 1566, 266, 1294>>>>, <<-2, <<462, 745, 633, 1903, 1767>>>>,
         <<-2, <<451, 452, 1177, 1449, 1305>>>>, <<-2, <<440, 1734, 89, 607, 1891>>>>,
         <<-2, <<431, 320, 1380, 1423, 780>>>>, <<-2, <<422, 160, 1916, 608, 1004>>>>,
         <<-2, <<413, 1128, 341, 2022, 1810>>>>, <<-2, <<405, 1064, 1900, 1874, 386>>>>,
         <<-2, <<397, 1924, 210, 536, 1520>>>>, <<-2, <<390, 1574, 1174, 1699, 1237>>>>,
         <<-2, <<383, 1991, 707, 531, 17>>>>, <<-2, <<377, 1062, 23, 1733, 497>>>>,
         <<-2, <<371, 777, 1021, 980, 1140>>>>, <<-2, <<365, 1087, 52, 1594, 551>>>>,
         <<-2, <<359, 1945, 490, 1761, 981>>>>, <<-2, <<354, 1263, 1006, 1663, 1269>>>>,
         <<-2, <<349, 1053, 465, 1799, 1951>>>>, <<-2, <<344, 1281, 967, 1344, 826>>>>,
         <<-2, <<339, 1918, 804, 691, 1485>>>>, <<-2, <<335, 888, 1885, 1599, 114>>>>,
         <<-2, <<331, 216, 889, 929, 582>>>>, <<-2, <<326, 1926, 981, 918, 1200>>>>,
         <<-2, <<322, 1902, 1086, 68, 500>>>>, <<-2, <<319, 125, 1603, 1691, 933>>>>,
         <<-2, <<315, 674, 1992, 1557, 142>>>>, <<-2, <<311, 1486, 443, 1443, 147>>>>,
         <<-2, <<308, 496, 1787, 1951, 1861>>>>, <<-2, <<304, 1789, 862, 1895, 1124>>>>,
         <<-2, <<301, 1255, 723, 652, 292>>>>, <<-2, <<298, 931, 157, 1426, 1140>>>>,
         <<-2, <<295, 805, 1707, 274, 1293>>>>, <<-2, <<292, 869, 1271, 46, 1260>>>>,
         <<-2, <<289, 1113, 257, 1213, 748>>>>, <<-2, <<286, 1527, 1365, 91, 1567>>>>,
         <<-2, <<284, 57, 279, 1021, 419>>>>, <<-2, <<281, 789, 1960, 405, 1352>>>>,
         <<-2, <<278, 1671, 70, 1322, 1405>>>>, <<-2, <<276, 645, 1474, 1033, 239>>>>,
         <<-2, <<273, 1803, 1587, 534, 1111>>>>, <<-2, <<271, 1043, 694, 1600, 1652>>>>,
         <<-2, <<269, 406, 1845, 2034, 526>>>>, <<-2, <<266, 1937, 559, 53, 1008>>>>,
         <<-2, <<264, 1533, 1156, 475, 1860>>>>, <<-2, <<262, 1239, 335, 1163, 1459>>>>,
         <<-2, <<260, 1049, 1465, 1815, 1507>>>>, <<-2, <<258, 961, 213, 1520, 619>>>> >>,
      << \* parent_visit_count = 60
         <<1, <<259, 2, 1906, 886, 842>>>>, <<0, <<366, 580, 559, 1053, 1301>>>>,
         <<0, <<299, 141, 1024, 1077, 1786>>>>, <<0, <<259, 2, 1906, 886, 842>>>>,
         <<-1, <<463, 646, 1741, 1529, 325>>>>, <<-1, <<422, 1940, 1259, 766, 638>>>>,
         <<-1, <<391, 1174, 484, 536, 923>>>>, <<-1, <<366, 580, 559, 1053, 1301>>>>,
         <<-1, <<345, 686, 1176, 1181, 1805>>>>, <<-1, <<327, 1257, 26, 573, 1437>>>>,
         <<-1, <<312, 752, 1222, 827, 1370>>>>, <<-1, <<299, 141, 1024, 1077, 1786>>>>,
         <<-1, <<287, 688, 1475, 1123, 103>>>>, <<-1, <<276, 1810, 1625, 255, 1142>>>>,
         <<-1, <<267, 1014, 1722, 504, 736>>>>, <<-1, <<259, 2, 1906, 886, 842>>>>,
         <<-2, <<502, 1098, 1925, 278, 567>>>>, <<-2, <<488, 773, 1428, 1404, 1735>>>>,
         <<-2, <<475, 720, 1948, 1371, 1175>>>>, <<-2, <<463, 646, 1741, 1529, 325>>>>,
         <<-2, <<452, 307, 270, 1463, 765>>>>, <<-2, <<441, 1544, 1757, 131, 15>>>>,
         <<-2, <<432, 90, 1291, 352, 805>>>>, <<-2, <<422, 1940, 1259, 766, 638>>>>,
         <<-2, <<414, 823, 1821, 1008, 1348>>>>, <<-2, <<406, 726, 1615, 462, 1864>>>>,
         <<-2, <<398, 1554, 0, 1437, 334>>>>, <<-2, <<391, 1174, 484, 536, 923>>>>,
         <<-2, <<384, 1562, 718, 1563, 357>>>>, <<-2, <<378, 605, 1648, 1916, 768>>>>,
         <<-2, <<372, 295, 835, 35, 1995>>>>, <<-2, <<366, 580, 559, 1053, 1301>>>>,
         <<-2, <<360, 1414, 1956, 639, 195>>>>, <<-2, <<355, 710, 1477, 213, 1498>>>>,
         <<-2, <<350, 478, 1929, 12, 1377>>>>, <<-2, <<345, 686, 1176, 1181, 1805>>>>,
         <<-2, <<340, 1303, 1482, 442, 1970>>>>, <<-2, <<336, 255, 545, 1336, 1994>>>>,
         <<-2, <<331, 1612, 1084, 1097, 288>>>>, <<-2, <<327, 1257, 26, 573, 1437>>>>,
         <<-2, <<323, 1216, 304, 1249, 1597>>>>, <<-2, <<319, 1471, 192, 1752, 1451>>>>,
         <<-2, <<315, 2004, 1124, 317, 648>>>>, <<-2, <<312, 752, 1222, 827, 1370>>>>,
         <<-2, <<308, 1796, 1161, 336, 1582>>>>, <<-2, <<305, 1026, 1864, 1732, 526>>>>,
         <<-2, <<302, 479, 191, 825, 1695>>>>, <<-2, <<299, 141, 1024, 1077, 1786>>>>,
         <<-2, <<296, 3, 715, 1890, 1547>>>>, <<-2, <<293, 54, 1266, 1662, 222>>>>,
         <<-2, <<290, 285, 1998, 319, 718>>>>, <<-2, <<287, 688, 1475, 1123, 103>>>>,
         <<-2, <<284, 1254, 1494, 1899, 735>>>>, <<-2, <<281, 1976, 839, 1193, 1108>>>>,
         <<-2, <<279, 798, 1335, 216, 538>>>>, <<-2, <<276, 1810, 1625, 255, 1142>>>>,
         <<-2, <<274, 910, 1194, 1685, 629>>>>, <<-2, <<272, 140, 305, 728, 1612>>>>,
         <<-2, <<269, 1541, 1982, 844, 1648>>>>, <<-2, <<267, 1014, 1722, 504, 736>>>>,
         <<-2, <<265, 601, 1778, 1214, 1351>>>>, <<-2, <<263, 298, 877, 1969, 13>>>>,
         <<-2, <<261, 100, 322, 1722, 1981>>>>, <<-2, <<259, 2, 1906, 886, 842>>>> >>,
      << \* parent_visit_count = 61
         <<1, <<259, 1072, 1153, 1563, 1584>>>>, <<0, <<367, 44, 1970, 228, 475>>>>,
         <<0, <<299, 1376, 1239, 2028, 1078>>>>, <<0, <<259, 1072, 1153, 1563, 1584>>>>,
         <<-1, <<464, 512, 547, 551, 1918>>>>, <<-1, <<423, 1639, 650, 339, 261>>>>,
         <<-1, <<392, 743, 755, 498, 473>>>>, <<-1, <<367, 44, 1970, 228, 475>>>>,
         <<-1, <<346, 64, 1538, 719, 1429>>>>, <<-1, <<328, 562, 5, 1494, 1341>>>>,
         <<-1, <<312, 2042, 1274, 514, 401>>>>, <<-1, <<299, 1376, 1239, 2028, 1078>>>>,
         <<-1, <<287, 1875, 760, 370, 552>>>>, <<-1, <<277, 906, 570, 1777, 569>>>>,
         <<-1, <<268, 71, 1131, 1574, 1653>>>>, <<-1, <<259, 1072, 1153, 1563, 1584>>>>,
         <<-2, <<503, 1126, 679, 1395, 389>>>>, <<-2, <<489, 742, 1261, 986, 1999>>>>,
         <<-2, <<476, 636, 154, 2000, 1630>>>>, <<-2, <<464, 512, 547, 551, 1918>>>>,
         <<-2, <<453, 126, 892, 808, 1714>>>>, <<-2, <<442, 1321, 469, 985, 1501>>>>,
         <<-2, <<432, 1874, 1844, 1646, 1462>>>>, <<-2, <<423, 1639, 650, 339, 261>>>>,
         <<-2, <<415, 487, 617, 454, 77>>>>, <<-2, <<407, 356, 1978, 1582, 231>>>>,
         <<-2, <<399, 1152, 1653, 656, 1438>>>>, <<-2, <<392, 743, 755, 498, 473>>>>,
         <<-2, <<385, 1103, 731, 647, 481>>>>, <<-2, <<379, 120, 211, 1505, 103>>>>,
         <<-2, <<372, 1832, 616, 1121, 1190>>>>, <<-2, <<367, 44, 1970, 228, 475>>>>,
         <<-2, <<361, 856, 1122, 1282, 515>>>>, <<-2, <<356, 130, 501, 1161, 288>>>>,
         <<-2, <<350, 1925, 714, 1588, 1780>>>>, <<-2, <<346, 64, 1538, 719, 1429>>>>,
         <<-2, <<341, 662, 1015, 471, 1563>>>>, <<-2, <<336, 1643, 829, 261, 163>>>>,
         <<-2, <<332, 934, 1547, 1630, 2035>>>>, <<-2, <<328, 562, 5, 1494, 1341>>>>,
         <<-2, <<324, 504, 1099, 1457, 510>>>>, <<-2, <<320, 743, 977, 517, 230>>>>,
         <<-2, <<316, 1261, 1000, 89, 1134>>>>, <<-2, <<312, 2042, 1274, 514, 401>>>>,
         <<-2, <<309, 1024, 364, 1733, 596>>>>, <<-2, <<306, 240, 1188, 585, 1176>>>>,
         <<-2, <<302, 1727, 550, 1557, 1572>>>>, <<-2, <<299, 1376, 1239, 2028, 1078>>>>,
         <<-2, <<296, 1225, 1611, 324, 640>>>>, <<-2, <<293, 1264, 1576, 182, 1199>>>>,
         <<-2, <<290, 1484, 417, 429, 809>>>>, <<-2, <<287, 1875, 760, 370, 552>>>>,
         <<-2, <<285, 382, 271, 807, 447>>>>, <<-2, <<282, 1092, 1798, 1591, 857>>>>,
         <<-2, <<279, 1952, 994, 1153, 1533>>>>, <<-2, <<277, 906, 570, 1777, 569>>>>,
         <<-2, <<274, 2043, 2035, 114, 816>>>>, <<-2, <<272, 1263, 1528, 63, 1096>>>>,
         <<-2, <<270, 608, 4, 1381, 1655>>>>, <<-2, <<268, 71, 1131, 1574, 1653>>>>,
         <<-2, <<265, 1697, 998, 1669, 1871>>>>, <<-2, <<263, 1385, 361, 481, 1095>>>>,
         <<-2, <<261, 1178, 503, 1014, 1681>>>>, <<-2, <<259, 1072, 1153, 1563, 1584>>>> >>,
      << \* parent_visit_count = 62
         <<1, <<260, 74, 1446, 1647, 1734>>>>, <<0, <<367, 1530, 181, 775, 754>>>>,
         <<0, <<300, 541, 422, 825, 210>>>>, <<0, <<260, 74, 1446, 1647, 1734>>>>,
         <<-1, <<465, 342, 1679, 1925, 1595>>>>, <<-1, <<424, 1306, 397, 399, 220>>>>,
         <<-1, <<393, 283, 73, 1005, 70>>>>, <<-1, <<367, 1530, 181, 775, 754>>>>,
         <<-1, <<346, 1464, 1929, 149, 264>>>>, <<-1, <<328, 1890, 697, 313, 77>>>>,
         <<-1, <<313, 1261, 291, 1338, 326>>>>, <<-1, <<300, 541, 422, 825, 210>>>>,
         <<-1, <<288, 992, 819, 1811, 1264>>>>, <<-1, <<277, 2028, 1902, 901, 1532>>>>,
         <<-1, <<268, 1156, 277, 2028, 1091>>>>, <<-1, <<260, 74, 1446, 1647, 1734>>>>,
         <<-2, <<504, 1115, 1861, 264, 505>>>>, <<-2, <<490, 674, 1607, 351, 323>>>>,
         <<-2, <<477, 515, 881, 1138, 135>>>>, <<-2, <<465, 342, 1679, 1925, 1595>>>>,
         <<-2, <<453, 1959, 1465, 2004, 554>>>>, <<-2, <<443, 1064, 735, 1755, 2042>>>>,
         <<-2, <<433, 1578, 1352, 1634, 1592>>>>, <<-2, <<424, 1306, 397, 399, 220>>>>,
         <<-2, <<416, 119, 1086, 178, 1955>>>>, <<-2, <<407, 2004, 1159, 1288, 1034>>>>,
         <<-2, <<400, 721, 1245, 1782, 1645>>>>, <<-2, <<393, 283, 73, 1005, 70>>>>,
         <<-2, <<386, 615, 840, 1410, 590>>>>, <<-2, <<379, 1653, 1915, 2012, 313>>>>,
         <<-2, <<373, 1293, 391, 1092, 349>>>>, <<-2, <<367, 1530, 181, 775, 754>>>>,
         <<-2, <<362, 270, 2047, 926, 346>>>>, <<-2, <<356, 1571, 60, 155, 876>>>>,
         <<-2, <<351, 1297, 822, 1176, 1727>>>>, <<-2, <<346, 1464, 1929, 149, 264>>>>,
         <<-2, <<341, 2043, 1301, 602, 151>>>>, <<-2, <<337, 958, 512, 2006, 1138>>>>,
         <<-2, <<333, 232, 31, 1730, 743>>>>, <<-2, <<328, 1890, 697, 313, 77>>>>,
         <<-2, <<324, 1816, 1178, 603, 936>>>>, <<-2, <<320, 2039, 1642, 778, 1713>>>>,
         <<-2, <<317, 494, 1332, 1957, 159>>>>, <<-2, <<313, 1261, 291, 1338, 326>>>>,
         <<-2, <<310, 228, 1119, 1966, 1063>>>>, <<-2, <<306, 1479, 535, 815, 1956>>>>,
         <<-2, <<303, 904, 1437, 691, 1706>>>>, <<-2, <<300, 541, 422, 825, 210>>>>,
         <<-2, <<297, 377, 1946, 127, 1689>>>>, <<-2, <<294, 404, 1783, 1029, 1832>>>>,
         <<-2, <<291, 612, 1227, 646, 123>>>>, <<-2, <<288, 992, 819, 1811, 1264>>>>,
         <<-2, <<285, 1536, 242, 1364, 539>>>>, <<-2, <<283, 188, 264, 1631, 829>>>>,
         <<-2, <<280, 1037, 605, 1407, 1284>>>>, <<-2, <<277, 2028, 1902, 901, 1532>>>>,
         <<-2, <<275, 1108, 1541, 152, 124>>>>, <<-2, <<273, 318, 1782, 1397, 284>>>>,
         <<-2, <<270, 1701, 1511, 1543, 1011>>>>, <<-2, <<268, 1156, 277, 2028, 1091>>>>,
         <<-2, <<266, 725, 295, 58, 1778>>>>, <<-2, <<264, 404, 251, 1126, 567>>>>,
         <<-2, <<262, 188, 1414, 670, 46>>>>, <<-2, <<260, 74, 1446, 1647, 1734>>>> >>,
      << \* parent_visit_count = 63
         <<1, <<260, 1106, 59, 1197, 758>>>>, <<0, <<368, 940, 1226, 1697, 1962>>>>,
         <<0, <<300, 1732, 153, 1508, 17>>>>, <<0, <<260, 1106, 59, 1197, 758>>>>,
         <<-1, <<466, 139, 1446, 1107, 1702>>>>, <<-1, <<425, 942, 689, 1453, 133>>>>,
         <<-1, <<393, 1842, 510, 600, 131>>>>, <<-1, <<368, 940, 1226, 1697, 1962>>>>,
         <<-1, <<347, 792, 79, 913, 1693>>>>, <<-1, <<329, 1146, 1785, 1052, 35>>>>,
         <<-1, <<314, 456, 1974, 1900, 575>>>>, <<-1, <<300, 1732, 153, 1508, 17>>>>,
         <<-1, <<289, 88, 1126, 1167, 1029>>>>, <<-1, <<278, 1083, 940, 951, 760>>>>,
         <<-1, <<269, 173, 575, 1782, 1370>>>>, <<-1, <<260, 1106, 59, 1197, 758>>>>,
         <<-2, <<505, 1068, 1983, 1485, 940>>>>, <<-2, <<491, 571, 953, 215, 1933>>>>,
         <<-2, <<478, 360, 498, 1751, 212>>>>, <<-2, <<466, 139, 1446, 1107, 1702>>>>,
         <<-2, <<454, 1712, 287, 376, 898>>>>, <<-2, <<444, 775, 796, 1886, 656>>>>,
         <<-2, <<434, 1251, 52, 1065, 1611>>>>, <<-2, <<425, 942, 689, 1453, 133>>>>,
         <<-2, <<416, 1769, 1324, 277, 803>>>>, <<-2, <<408, 1574, 1307, 560, 1437>>>>,
         <<-2, <<401, 261, 887, 1328, 22>>>>, <<-2, <<393, 1842, 510, 600, 131>>>>,
         <<-2, <<387, 99, 1034, 296, 22>>>>, <<-2, <<380, 1112, 570, 1502, 526>>>>,
         <<-2, <<374, 727, 80, 1003, 243>>>>, <<-2, <<368, 940, 1226, 1697, 1962>>>>,
         <<-2, <<362, 1707, 494, 1477, 1313>>>>, <<-2, <<357, 937, 2032, 604, 295>>>>,
         <<-2, <<352, 644, 9, 40, 54>>>>, <<-2, <<347, 792, 79, 913, 1693>>>>,
         <<-2, <<342, 1352, 46, 527, 1982>>>>, <<-2, <<338, 248, 1375, 396, 1286>>>>,
         <<-2, <<333, 1553, 339, 1479, 1730>>>>, <<-2, <<329, 1146, 1785, 1052, 35>>>>,
         <<-2, <<325, 1057, 204, 122, 1114>>>>, <<-2, <<321, 1264, 1831, 899, 1491>>>>,
         <<-2, <<317, 1752, 1746, 634, 1349>>>>, <<-2, <<314, 456, 1974, 1900, 575>>>>,
         <<-2, <<310, 1458, 964, 738, 1135>>>>, <<-2, <<307, 647, 1522, 370, 1286>>>>,
         <<-2, <<304, 60, 353, 1737, 1711>>>>, <<-2, <<300, 1732, 153, 1508, 17>>>>,
         <<-2, <<297, 1556, 1238, 783, 573>>>>, <<-2, <<294, 1571, 1391, 129, 1160>>>>,
         <<-2, <<291, 1767, 1867, 435, 53>>>>, <<-2, <<289, 88, 1126, 1167, 1029>>>>,
         <<-2, <<286, 621, 866, 505, 510>>>>, <<-2, <<283, 1310, 1825, 286, 89>>>>,
         <<-2, <<281, 101, 1646, 726, 144>>>>, <<-2, <<278, 1083, 940, 951, 760>>>>,
         <<-2, <<276, 153, 1164, 1220, 942>>>>, <<-2, <<273, 1402, 460, 937, 2040>>>>,
         <<-2, <<271, 727, 1786, 1125, 1537>>>>, <<-2, <<269, 173, 575, 1782, 1370>>>>,
         <<-2, <<266, 1781, 1070, 1119, 1516>>>>, <<-2, <<264, 1451, 1940, 1753, 1890>>>>,
         <<-2, <<262, 1228, 340, 400, 87>>>>, <<-2, <<260, 1106, 59, 1197, 758>>>> >>,
      << \* parent_visit_count = 64
         <<1, <<261, 71, 341, 1835, 1891>>>>, <<0, <<369, 325, 803, 974, 1205>>>>,
         <<0, <<301, 853, 1937, 351, 1091>>>>, <<0, <<261, 71, 341, 1835, 1891>>>>,
         <<-1, <<466, 1952, 127, 1615, 1888>>>>, <<-1, <<426, 548, 1605, 1081, 1351>>>>,
         <<-1, <<394, 1325, 1985, 1588, 1391>>>>, <<-1, <<369, 325, 803, 974, 1205>>>>,
         <<-1, <<348, 94, 1821, 399, 1839>>>>, <<-1, <<330, 380, 821, 951, 66>>>>,
         <<-1, <<314, 1678, 1750, 195, 1778>>>>, <<-1, <<301, 853, 1937, 351, 1091>>>>,
         <<-1, <<289, 1212, 1076, 914, 1604>>>>, <<-1, <<279, 118, 1124, 1260, 1132>>>>,
         <<-1, <<269, 1219, 1321, 1832, 212>>>>, <<-1, <<261, 71, 341, 1835, 1891>>>>,
         <<-2, <<506, 986, 1525, 653, 1073>>>>, <<-2, <<492, 433, 1753, 1982, 241>>>>,
         <<-2, <<479, 171, 1396, 182, 110>>>>, <<-2, <<466, 1952, 127, 1615, 1888>>>>,
         <<-2, <<455, 1432, 1676, 1241, 950>>>>, <<-2, <<445, 455, 825, 35, 1369>>>>,
         <<-2, <<435, 893, 115, 1046, 1163>>>>, <<-2, <<426, 548, 1605, 1081, 1351>>>>,
         <<-2, <<417, 1342, 1366, 479, 1797>>>>, <<-2, <<409, 1116, 368, 259, 1920>>>>,
         <<-2, <<401, 1821, 534, 1834, 89>>>>, <<-2, <<394, 1325, 1985, 1588, 1391>>>>,
         <<-2, <<387, 1604, 1197, 1184, 1868>>>>, <<-2, <<381, 544, 125, 774, 303>>>>,
         <<-2, <<375, 134, 1553, 1819, 319>>>>, <<-2, <<369, 325, 803, 974, 1205>>>>,
         <<-2, <<363, 1070, 325, 692, 1222>>>>, <<-2, <<358, 280, 12, 551, 655>>>>,
         <<-2, <<352, 2014, 34, 933, 413>>>>, <<-2, <<348, 94, 1821, 399, 1839>>>>,
         <<-2, <<343, 636, 1010, 469, 385>>>>, <<-2, <<338, 1563, 1009, 406, 1353>>>>,
         <<-2, <<334, 803, 43, 120, 818>>>>, <<-2, <<330, 380, 821, 951, 66>>>>,
         <<-2, <<326, 274, 1851, 929, 1914>>>>, <<-2, <<322, 467, 1103, 813, 2037>>>>,
         <<-2, <<318, 940, 1780, 571, 271>>>>, <<-2, <<314, 1678, 1750, 195, 1778>>>>,
         <<-2, <<311, 618, 1450, 1077, 576>>>>, <<-2, <<307, 1842, 1588, 296, 132>>>>,
         <<-2, <<304, 1242, 867, 779, 1724>>>>, <<-2, <<301, 853, 1937, 351, 1091>>>>,
         <<-2, <<298, 666, 975, 1805, 1283>>>>, <<-2, <<295, 669, 1871, 1189, 554>>>>,
         <<-2, <<292, 854, 1747, 409, 1724>>>>, <<-2, <<289, 1212, 1076, 914, 1604>>>>,
         <<-2, <<286, 1734, 1524, 1342, 1928>>>>, <<-2, <<284, 365, 1753, 38, 901>>>>,
         <<-2, <<281, 1194, 1424, 1709, 463>>>>, <<-2, <<279, 118, 1124, 1260, 1132>>>>,
         <<-2, <<276, 1227, 237, 70, 115>>>>, <<-2, <<274, 418, 976, 1696, 1841>>>>,
         <<-2, <<271, 1783, 136, 1832, 457>>>>, <<-2, <<269, 1219, 1321, 1832, 212>>>>,
         <<-2, <<267, 771, 562, 1616, 867>>>>, <<-2, <<265, 433, 607, 1591, 1856>>>>,
         <<-2, <<263, 201, 641, 376, 928>>>>, <<-2, <<261, 71, 341, 1835, 1891>>>> >>
    >>

sqrt_log_ratio(parent_visit_count, visit_count) ==
    [sign |-> 1,
     exponent |-> RootTable[parent_visit_count][visit_count][1],
     mantissa |-> RootTable[parent_visit_count][visit_count][2]]

(* The float a constant of the config is, the constant in thousandths.     *)
float_of_constant(c) == quotient[c, 1000]

(* uct_C * math.sqrt(math.log(parent_visit_count) / visit_count).  The     *)
(* products for the constants the configs of the scenarios hold are        *)
(* computed once.                                                          *)
ExplorationTerms ==
    [c \in {DefaultUctC, TestUctC, AgentUctC} |->
        [parent_visit_count \in 1..64 |->
            [visit_count \in 1..64 |->
                product[float_of_constant(c),
                        sqrt_log_ratio(parent_visit_count, visit_count)]]]]

exploration(c, parent_visit_count, visit_count) ==
    IF c \in DOMAIN ExplorationTerms
    THEN ExplorationTerms[c][parent_visit_count][visit_count]
    ELSE product[float_of_constant(c),
                 sqrt_log_ratio(parent_visit_count, visit_count)]

(* uct_value without the branch for unvisited nodes: their score is their  *)
(* average_reward, 0.                                                      *)
uct_value_no_inf(n, parent_visit_count, cfg) ==
    IF n.visit_count = 0 THEN average_reward(n)
    ELSE LET p == IF parent_visit_count < 1 THEN 1 ELSE parent_visit_count
         IN  sum[quotient[n.total_reward, n.visit_count],
                 exploration(cfg.uct_C, p, n.visit_count)]

(* Node.uct_value; uct_C is cfg.uct_C in thousandths.                      *)
uct_value(n, parent_visit_count, cfg) ==
    IF n.visit_count = 0 THEN PosInf
    ELSE LET p == IF parent_visit_count = 0
                  THEN (IF parent_visit_count < 1 THEN 1 ELSE parent_visit_count)
                  ELSE parent_visit_count
             exploitation_term == average_reward(n)
             exploration_term == exploration(cfg.uct_C, p, n.visit_count)
         IN  sum[exploitation_term, exploration_term]

----------------------------------------------------------------------------
(* class MCTS                                                              *)

(* uct_scan with >= in place of >: the last of several best children wins. *)
RECURSIVE uct_scan_last_wins(_, _, _, _, _)
uct_scan_last_wins(ns, cur, cfg, k, acc) ==
    IF k > Len(ns[cur].children) THEN acc
    ELSE LET child_node == ns[cur].children[k]
             uct == uct_value(ns[child_node], ns[cur].visit_count, cfg)
         IN  IF ~greater[acc.max_uct, uct]
             THEN uct_scan_last_wins(ns, cur, cfg, k + 1,
                      [best_child |-> child_node, max_uct |-> uct])
             ELSE uct_scan_last_wins(ns, cur, cfg, k + 1, acc)

(* The scan of _select_promising_node over current_node.children: the     *)
(* state of the scan is [best_child, max_uct]; k is the position reached. *)
RECURSIVE uct_scan(_, _, _, _, _)
uct_scan(ns, cur, cfg, k, acc) ==
    IF k > Len(ns[cur].children) THEN acc
    ELSE LET child_node == ns[cur].children[k]
             uct == uct_value(ns[child_node], ns[cur].visit_count, cfg)
         IN  IF greater[uct, acc.max_uct]
             THEN uct_scan(ns, cur, cfg, k + 1,
                           [best_child |-> child_node, max_uct |-> uct])
             ELSE uct_scan(ns, cur, cfg, k + 1, acc)

best_uct_child(ns, cur, cfg) ==
    uct_scan(ns, cur, cfg, 1, [best_child |-> NoNode, max_uct |-> NegInf]).best_child

(* _select_promising_node with <= in the test of line 136: a fully         *)
(* expanded node is handed to expansion as well.                           *)
select_promising_node_le(ns, node, cfg) ==
    IF node_is_terminated(ns[node]) THEN node
    ELSE LET possible_actions == get_all_possible_actions(ns[node].state)
         IN  IF Len(possible_actions) = 0 THEN node
             ELSE IF Len(ns[node].children) <= Len(possible_actions) THEN node
             ELSE IF Len(ns[node].children) = 0 THEN node
             ELSE LET best_child == best_uct_child(ns, node, cfg)
                  IN  IF best_child = NoNode THEN node ELSE best_child

(* MCTS._select_promising_node, started at node.                           *)
RECURSIVE select_promising_node(_, _, _)
select_promising_node(ns, node, cfg) ==
    IF node_is_terminated(ns[node]) THEN node
    ELSE LET possible_actions == get_all_possible_actions(ns[node].state)
         IN  IF Len(possible_actions) = 0 THEN node
             ELSE IF Len(ns[node].children) < Len(possible_actions) THEN node
             ELSE IF Len(ns[node].children) = 0 THEN node
             ELSE LET best_child == best_uct_child(ns, node, cfg)
                  IN  IF best_child = NoNode THEN node
                      ELSE select_promising_node(ns, best_child, cfg)

(* _select_promising_node leaves with an AttributeError: a node of the     *)
(* walk holds a state without is_terminated (line 128), or a non-terminal  *)
(* one without get_all_possible_actions (line 129).                        *)
RECURSIVE select_raises(_, _, _)
select_raises(ns, node, cfg) ==
    IF ~hasattr(ns[node].state, "is_terminated") THEN TRUE
    ELSE IF node_is_terminated(ns[node]) THEN FALSE
    ELSE IF ~hasattr(ns[node].state, "get_all_possible_actions") THEN TRUE
    ELSE LET possible_actions == get_all_possible_actions(ns[node].state)
         IN  IF Len(possible_actions) = 0 THEN FALSE
             ELSE IF Len(ns[node].children) < Len(possible_actions) THEN FALSE
             ELSE IF Len(ns[node].children) = 0 THEN FALSE
             ELSE LET best_child == best_uct_child(ns, node, cfg)
                  IN  IF best_child = NoNode THEN FALSE
                      ELSE select_raises(ns, best_child, cfg)

(* tried_actions of _expand_node.                                          *)
tried_actions(ns, node) ==
    {ns[ns[node].children[k]].action_taken : k \in 1..Len(ns[node].children)}

(* first_untried taking the action at position len(children) + 1 instead   *)
(* of comparing with the actions already tried.                            *)
first_untried_by_count(ns, node) ==
    IF Len(ns[node].children) < Len(get_all_possible_actions(ns[node].state))
    THEN Len(ns[node].children) + 1
    ELSE 0

(* first_untried scanning possible_actions from the end.                   *)
first_untried_from_end(ns, node) ==
    LET possible_actions == get_all_possible_actions(ns[node].state)
        untried == {k \in 1..Len(possible_actions) :
                        possible_actions[k] \notin tried_actions(ns, node)}
    IN  IF untried = {} THEN 0
        ELSE CHOOSE k \in untried : \A j \in untried : k >= j

(* Position in possible_actions of the action the loop of _expand_node    *)
(* stops at: the first one not in tried_actions; 0 when the loop runs out. *)
first_untried(ns, node) ==
    LET possible_actions == get_all_possible_actions(ns[node].state)
        untried == {k \in 1..Len(possible_actions) :
                        possible_actions[k] \notin tried_actions(ns, node)}
    IN  IF untried = {} THEN 0
        ELSE CHOOSE k \in untried : \A j \in untried : k <= j

(* _expand_node handing the root to the new child as its parent, whatever  *)
(* node the child is appended to.                                          *)
expand_node_parent_root(ns, node) ==
    IF node_is_terminated(ns[node])
    THEN [nodes |-> ns, ret |-> node, moved |-> 0]
    ELSE LET k == first_untried(ns, node)
         IN  IF k = 0 THEN [nodes |-> ns, ret |-> node, moved |-> 0]
             ELSE LET action == get_all_possible_actions(ns[node].state)[k]
                      next_state == get_next_state(ns[node].state, action)[1]
                      new_child_node == Len(ns) + 1
                      appended == [ns EXCEPT ![node].children =
                                       Append(@, new_child_node)]
                  IN  [nodes |-> Append(appended, Node(next_state, Root, action)),
                       ret |-> new_child_node, moved |-> 1]

(* MCTS._expand_node: [nodes, ret, moved], ret the node returned, moved    *)
(* the number of get_next_state calls made.                                *)
expand_node(ns, node) ==
    IF node_is_terminated(ns[node])
    THEN [nodes |-> ns, ret |-> node, moved |-> 0]
    ELSE LET k == first_untried(ns, node)
         IN  IF k = 0 THEN [nodes |-> ns, ret |-> node, moved |-> 0]
             ELSE LET action == get_all_possible_actions(ns[node].state)[k]
                      next_state == get_next_state(ns[node].state, action)[1]
                      new_child_node == Len(ns) + 1
                      appended == [ns EXCEPT ![node].children =
                                       Append(@, new_child_node)]
                  IN  [nodes |-> Append(appended, Node(next_state, node, action)),
                       ret |-> new_child_node, moved |-> 1]

(* Lines 106-107 leave with an AttributeError: the state of node has no    *)
(* is_terminated, or is non-terminal and has no get_all_possible_actions   *)
(* (line 160) or, with an action left to try, no get_next_state (line 170).*)
expand_raises(ns, node) ==
    IF ~hasattr(ns[node].state, "is_terminated") THEN TRUE
    ELSE IF node_is_terminated(ns[node]) THEN FALSE
    ELSE IF ~hasattr(ns[node].state, "get_all_possible_actions") THEN TRUE
    ELSE first_untried(ns, node) # 0 /\ ~hasattr(ns[node].state, "get_next_state")

(* _backpropagate crediting the reward with the opposite sign, as engines  *)
(* for two-player games do.                                                *)
RECURSIVE backpropagate_negated(_, _, _)
backpropagate_negated(ns, node, reward) ==
    IF node = NoNode THEN ns
    ELSE backpropagate_negated(
             [ns EXCEPT ![node].visit_count = @ + 1,
                        ![node].total_reward = @ - reward],
             ns[node].parent, reward)

(* _backpropagate stopping below the root (while temp_node.parent ...).    *)
RECURSIVE backpropagate_below_root(_, _, _)
backpropagate_below_root(ns, node, reward) ==
    IF node = NoNode \/ ns[node].parent = NoNode THEN ns
    ELSE backpropagate_below_root(
             [ns EXCEPT ![node].visit_count = @ + 1,
                        ![node].total_reward = @ + reward],
             ns[node].parent, reward)

(* _backpropagate counting only nodes that have children: the node a new   *)
(* child's rollout started at is left unvisited.                           *)
RECURSIVE backpropagate_skips_leaf(_, _, _)
backpropagate_skips_leaf(ns, node, reward) ==
    IF node = NoNode THEN ns
    ELSE backpropagate_skips_leaf(
             IF ns[node].children = <<>> THEN ns
             ELSE [ns EXCEPT ![node].visit_count = @ + 1,
                             ![node].total_reward = @ + reward],
             ns[node].parent, reward)

(* MCTS._backpropagate: the walk from node along parent up to the root.    *)
RECURSIVE backpropagate(_, _, _)
backpropagate(ns, node, reward) ==
    IF node = NoNode THEN ns
    ELSE backpropagate(
             [ns EXCEPT ![node].visit_count = @ + 1,
                        ![node].total_reward = @ + reward],
             ns[node].parent, reward)

(* visits_scan with >= in place of >: the last of several most-visited     *)
(* children wins.                                                          *)
RECURSIVE visits_scan_last_wins(_, _, _)
visits_scan_last_wins(ns, k, acc) ==
    IF k > Len(ns[Root].children) THEN acc
    ELSE LET child == ns[Root].children[k]
         IN  IF ns[child].visit_count >= acc.highest_visits
             THEN visits_scan_last_wins(ns, k + 1,
                      [best_child |-> child,
                       highest_visits |-> ns[child].visit_count])
             ELSE visits_scan_last_wins(ns, k + 1, acc)

(* The final scan of search over root_node.children: [best_child,         *)
(* highest_visits]; the root is node 1.                                    *)
RECURSIVE visits_scan(_, _, _)
visits_scan(ns, k, acc) ==
    IF k > Len(ns[Root].children) THEN acc
    ELSE LET child == ns[Root].children[k]
         IN  IF ns[child].visit_count > acc.highest_visits
             THEN visits_scan(ns, k + 1,
                      [best_child |-> child,
                       highest_visits |-> ns[child].visit_count])
             ELSE visits_scan(ns, k + 1, acc)

(* The value search returns once the loop is over.                         *)
best_action(ns) ==
    IF Len(ns[Root].children) = 0 THEN None
    ELSE LET best_child ==
                 visits_scan(ns, 1, [best_child |-> NoNode,
                                     highest_visits |-> -1]).best_child
         IN  IF best_child # NoNode THEN ns[best_child].action_taken ELSE None

(* getattr(self.config, 'max_simulation_depth', 100)                       *)
max_simulation_depth(cfg) ==
    IF cfg.max_simulation_depth = Absent THEN DefaultMaxSimulationDepth
    ELSE cfg.max_simulation_depth

----------------------------------------------------------------------------
(* MCTS.search as a state machine: not started -> iterating -> finished.   *)

(* MCTSConfig objects the model runs with.                                 *)
MCTSConfig(num_simulations, depth_attr) ==
    [exploration_constant |-> DefaultExplorationConstant,
     num_simulations |-> num_simulations,
     uct_C |-> DefaultUctC,
     max_simulation_depth |-> depth_attr]

(* Initial states handed to search, and the configs they are run with.     *)
InitialStates ==
    {"terminal", "s0_start", "sym", "game", "dup", "dead", "loop",
     "no_evaluate", "no_is_terminated", "no_get_actions", "no_get_next_state",
     "passed_through", "trap_evaluate", "trap_terminated", "trap_actions",
     "trap_next_state", "trap_unused"}

(* The dict mcts_node returns, before it has returned.                     *)
NoReturn == [game_state |-> None, action_records |-> <<>>]

(* mcts_node has not been called.  graph_state is the caller's dict: its   *)
(* action_records key is missing, None or a list of items; action_records  *)
(* is the local list of mcts_node.                                         *)
NoGraph ==
    [graph_state |-> [game_state |-> None,
                      action_records |-> [kind |-> "missing", items |-> <<>>],
                      current_player_id |-> None],
     mcts_config |-> [kind |-> "missing", keys |-> {},
                      num_simulations |-> Absent,
                      exploration_constant |-> Absent, uct_C |-> Absent],
     action_records |-> <<>>,
     returned |-> NoReturn]

Configs ==
    {MCTSConfig(n, d) : n \in 1..MaxSimulations, d \in {Absent, MaxDepthAttr}}

Idle == [op |-> "none", node |-> NoNode, reward |-> 0, ret |-> NoNode, seq |-> 0]

(* No earlier search call to compare with.                                 *)
NoTwin ==
    [run |-> 1, tape |-> <<>>, pos |-> 1,
     first |-> [nodes |-> <<>>, result |-> None, transition_rewards |-> 0]]

(* No iteration of search is complete yet.                                 *)
NoneStarted == <<>>

(* What lies outside the search call when search is run on its own: the    *)
(* states return the reward 0.0 of MockState.get_next_state.               *)
NoContext ==
    /\ transition_rewards = 0
    /\ twin = NoTwin
    /\ graph = NoGraph
    /\ started = NoneStarted

(* The variables of one search call before it starts.                      *)
NotStarted ==
    /\ nodes = <<>>
    /\ pc = "start"
    /\ i = 0
    /\ promising_node = NoNode
    /\ expanded_node = NoNode
    /\ current_state = initial_state
    /\ depth = 0
    /\ simulation_reward = 0
    /\ result = None
    /\ transitions = 0
    /\ rollouts = 0
    /\ call = Idle

InitWith(states, configs) ==
    /\ initial_state \in states
    /\ config \in configs
    /\ NotStarted
    /\ NoContext

Init == InitWith(InitialStates, Configs)

(* The operations search asks the initial state for, lines 84-94.          *)
RequiredOperations ==
    {"get_all_possible_actions", "is_terminated", "get_next_state", "evaluate"}

(* SearchStart without the test of line 99: a terminal root enters the     *)
(* loop like any other.                                                    *)
SearchStart_NoTerminalTest ==
    /\ pc = "start"
    /\ IF \E operation \in RequiredOperations :
              ~hasattr(initial_state, operation)
       THEN pc' = "failed" /\ UNCHANGED <<nodes, i>>
       ELSE /\ nodes' = <<Node(initial_state, NoNode, None)>>
            /\ pc' = "select" /\ i' = 0
    /\ UNCHANGED <<config, initial_state, promising_node, expanded_node,
                   current_state, depth, simulation_reward, result,
                   transitions, rollouts, call, context>>

(* SearchStart without the hasattr tests of lines 84-94.                   *)
SearchStart_NoHasattr ==
    /\ pc = "start"
    /\ nodes' = <<Node(initial_state, NoNode, None)>>
    /\ IF node_is_terminated(nodes'[Root])
       THEN pc' = "done" /\ result' = None /\ UNCHANGED i
       ELSE pc' = "select" /\ i' = 0 /\ UNCHANGED result
    /\ UNCHANGED <<config, initial_state, promising_node, expanded_node,
                   current_state, depth, simulation_reward, transitions,
                   rollouts, call, context>>

(* SearchStart leaving at once when the root has no legal action either.   *)
SearchStart_DeadEndLeaves ==
    /\ pc = "start"
    /\ IF \E operation \in RequiredOperations :
              ~hasattr(initial_state, operation)
       THEN pc' = "failed" /\ UNCHANGED <<nodes, result, i>>
       ELSE /\ nodes' = <<Node(initial_state, NoNode, None)>>
            /\ IF \/ node_is_terminated(nodes'[Root])
                  \/ Len(get_all_possible_actions(initial_state)) = 0
               THEN pc' = "done" /\ result' = None /\ UNCHANGED i
               ELSE pc' = "select" /\ i' = 0 /\ UNCHANGED result
    /\ UNCHANGED <<config, initial_state, promising_node, expanded_node,
                   current_state, depth, simulation_reward, transitions,
                   rollouts, call, context>>

(* SearchStart going on with the tree an earlier call built when there is  *)
(* one, as engines that keep their tree between calls do.                  *)
SearchStart_KeepsTree ==
    /\ pc = "start"
    /\ IF \E operation \in RequiredOperations :
              ~hasattr(initial_state, operation)
       THEN pc' = "failed" /\ UNCHANGED <<nodes, result, i>>
       ELSE /\ nodes' = IF nodes = <<>>
                        THEN <<Node(initial_state, NoNode, None)>>
                        ELSE nodes
            /\ IF node_is_terminated(nodes'[Root])
               THEN pc' = "done" /\ result' = None /\ UNCHANGED i
               ELSE pc' = "select" /\ i' = 0 /\ UNCHANGED result
    /\ UNCHANGED <<config, initial_state, promising_node, expanded_node,
                   current_state, depth, simulation_reward, transitions,
                   rollouts, call, context>>

(* search, lines 83-102: an initial state that lacks an operation ends the *)
(* call with an AttributeError; otherwise the root is built, a terminal    *)
(* root ends the call, and any other root enters the loop, i counting the  *)
(* iterations made, from 0.                                                *)
SearchStart ==
    /\ pc = "start"
    /\ IF \E operation \in RequiredOperations :
              ~hasattr(initial_state, operation)
       THEN pc' = "failed" /\ UNCHANGED <<nodes, result, i>>
       ELSE /\ nodes' = <<Node(initial_state, NoNode, None)>>
            /\ IF node_is_terminated(nodes'[Root])
               THEN pc' = "done" /\ result' = None /\ UNCHANGED i
               ELSE pc' = "select" /\ i' = 0 /\ UNCHANGED result
    /\ UNCHANGED <<config, initial_state, promising_node, expanded_node,
                   current_state, depth, simulation_reward, transitions,
                   rollouts, call, context>>

(* Select with the loop bound off by one (i <= num_simulations).           *)
Select_OneMore ==
    /\ pc = "select"
    /\ i <= config.num_simulations
    /\ IF select_raises(nodes, Root, config)
       THEN pc' = "failed" /\ UNCHANGED promising_node
       ELSE /\ promising_node' = select_promising_node(nodes, Root, config)
            /\ pc' = "expand"
    /\ UNCHANGED <<nodes, config, initial_state, i, expanded_node,
                   current_state, depth, simulation_reward, result,
                   transitions, rollouts, call, context>>

(* search, line 103                                                        *)
Select ==
    /\ pc = "select"
    /\ i < config.num_simulations
    /\ IF select_raises(nodes, Root, config)
       THEN pc' = "failed" /\ UNCHANGED promising_node
       ELSE /\ promising_node' = select_promising_node(nodes, Root, config)
            /\ pc' = "expand"
    /\ UNCHANGED <<nodes, config, initial_state, i, expanded_node,
                   current_state, depth, simulation_reward, result,
                   transitions, rollouts, call, context>>

(* Expand choosing any untried action instead of the first one.            *)
Expand_AnyUntried ==
    /\ pc = "expand"
    /\ IF expand_raises(nodes, promising_node)
       THEN pc' = "failed" /\ UNCHANGED <<nodes, expanded_node, transitions>>
       ELSE /\ pc' = "simulate"
            /\ IF ~node_is_terminated(nodes[promising_node])
               THEN IF first_untried(nodes, promising_node) = 0
                    THEN /\ expanded_node' = promising_node
                         /\ UNCHANGED <<nodes, transitions>>
                    ELSE LET possible_actions ==
                                 get_all_possible_actions(
                                     nodes[promising_node].state)
                         IN  \E k \in 1..Len(possible_actions) :
                               /\ possible_actions[k] \notin
                                      tried_actions(nodes, promising_node)
                               /\ nodes' = Append(
                                      [nodes EXCEPT ![promising_node].children =
                                           Append(@, Len(nodes) + 1)],
                                      Node(get_next_state(
                                               nodes[promising_node].state,
                                               possible_actions[k])[1],
                                           promising_node, possible_actions[k]))
                               /\ expanded_node' = Len(nodes) + 1
                               /\ transitions' = transitions + 1
               ELSE /\ expanded_node' = promising_node
                    /\ UNCHANGED <<nodes, transitions>>
    /\ UNCHANGED <<config, initial_state, i, promising_node, current_state,
                   depth, simulation_reward, result, rollouts, call, context>>

(* search, lines 105-107                                                   *)
Expand ==
    /\ pc = "expand"
    /\ IF expand_raises(nodes, promising_node)
       THEN pc' = "failed" /\ UNCHANGED <<nodes, expanded_node, transitions>>
       ELSE /\ pc' = "simulate"
            /\ IF ~node_is_terminated(nodes[promising_node])
               THEN LET e == expand_node(nodes, promising_node)
                    IN  /\ nodes' = e.nodes
                        /\ expanded_node' = e.ret
                        /\ transitions' = transitions + e.moved
               ELSE /\ expanded_node' = promising_node
                    /\ UNCHANGED <<nodes, transitions>>
    /\ UNCHANGED <<config, initial_state, i, promising_node, current_state,
                   depth, simulation_reward, result, rollouts, call, context>>

(* Simulate counting the visit of the node the rollout starts at, ahead of *)
(* backpropagation.                                                        *)
Simulate_CountsVisit ==
    /\ pc = "simulate"
    /\ nodes' = [nodes EXCEPT ![expanded_node].visit_count = @ + 1]
    /\ current_state' = nodes[expanded_node].state
    /\ depth' = 0
    /\ rollouts' = rollouts + 1
    /\ pc' = "rollout"
    /\ UNCHANGED <<config, initial_state, i, promising_node,
                   expanded_node, simulation_reward, result, transitions,
                   call, context>>

(* _simulate_random_playout, lines 177-184: entry of the rollout.          *)
Simulate ==
    /\ pc = "simulate"
    /\ current_state' = nodes[expanded_node].state
    /\ depth' = 0
    /\ rollouts' = rollouts + 1
    /\ pc' = "rollout"
    /\ UNCHANGED <<nodes, config, initial_state, i, promising_node,
                   expanded_node, simulation_reward, result, transitions,
                   call, context>>

(* rollout_over with the depth test off by one.                            *)
rollout_over_one_more ==
    \/ depth > max_simulation_depth(config)
    \/ is_terminated(current_state)
    \/ Len(get_all_possible_actions(current_state)) = 0

(* rollout_over without the depth cap: the loop runs until the state is    *)
(* terminal or has no action.                                              *)
rollout_over_no_cap ==
    \/ is_terminated(current_state)
    \/ Len(get_all_possible_actions(current_state)) = 0

(* The rollout loop stops: depth cap, terminal state or no action.         *)
rollout_over ==
    \/ depth >= max_simulation_depth(config)
    \/ is_terminated(current_state)
    \/ Len(get_all_possible_actions(current_state)) = 0

(* The next thing the rollout does with current_state raises an            *)
(* AttributeError: is_terminated (line 187), get_all_possible_actions      *)
(* (line 190) or get_next_state (line 199) inside the loop, evaluate       *)
(* (line 202) once the loop is left.                                       *)
rollout_raises ==
    IF depth >= max_simulation_depth(config)
    THEN ~hasattr(current_state, "evaluate")
    ELSE IF ~hasattr(current_state, "is_terminated") THEN TRUE
    ELSE IF is_terminated(current_state)
         THEN ~hasattr(current_state, "evaluate")
    ELSE IF ~hasattr(current_state, "get_all_possible_actions") THEN TRUE
    ELSE IF Len(get_all_possible_actions(current_state)) = 0
         THEN ~hasattr(current_state, "evaluate")
    ELSE ~hasattr(current_state, "get_next_state")

(* _simulate_random_playout, lines 186-199: one pass of the loop with      *)
(* random.choice returning the k-th element of available_actions.          *)
RolloutDraw(k) ==
    /\ pc = "rollout"
    /\ ~rollout_raises
    /\ ~rollout_over
    /\ k \in 1..Len(get_all_possible_actions(current_state))
    /\ current_state' =
           get_next_state(current_state,
                          get_all_possible_actions(current_state)[k])[1]
    /\ depth' = depth + 1
    /\ transitions' = transitions + 1
    /\ UNCHANGED <<nodes, config, initial_state, pc, i, promising_node,
                   expanded_node, simulation_reward, result, rollouts, call>>

(* random.choice may return any element of available_actions.              *)
RolloutStep ==
    /\ \E k \in 1..Len(get_all_possible_actions(current_state)) :
           RolloutDraw(k)
    /\ UNCHANGED context

(* RolloutReturn with the value of the state the rollout started in.       *)
RolloutReturn_StartState ==
    /\ pc = "rollout"
    /\ rollout_raises \/ rollout_over
    /\ IF rollout_raises
       THEN pc' = "failed" /\ UNCHANGED simulation_reward
       ELSE /\ simulation_reward' = evaluate(nodes[expanded_node].state)
            /\ pc' = "backprop"
    /\ UNCHANGED <<nodes, config, initial_state, i, promising_node,
                   expanded_node, current_state, depth, result, transitions,
                   rollouts, call, context>>

(* RolloutReturn adding up the rewards of the transitions instead of       *)
(* discarding them: the rollout made depth transitions.                    *)
RolloutReturn_WithTransitionRewards ==
    /\ pc = "rollout"
    /\ rollout_raises \/ rollout_over
    /\ IF rollout_raises
       THEN pc' = "failed" /\ UNCHANGED simulation_reward
       ELSE /\ simulation_reward' =
                   evaluate(current_state) + depth * transition_rewards
            /\ pc' = "backprop"
    /\ UNCHANGED <<nodes, config, initial_state, i, promising_node,
                   expanded_node, current_state, depth, result, transitions,
                   rollouts, call, context>>

(* _simulate_random_playout, line 202: the rollout returns the value of    *)
(* the state it stopped in; an AttributeError ends the search call.        *)
RolloutReturn ==
    /\ pc = "rollout"
    /\ rollout_raises \/ rollout_over
    /\ IF rollout_raises
       THEN pc' = "failed" /\ UNCHANGED simulation_reward
       ELSE /\ simulation_reward' = evaluate(current_state)
            /\ pc' = "backprop"
    /\ UNCHANGED <<nodes, config, initial_state, i, promising_node,
                   expanded_node, current_state, depth, result, transitions,
                   rollouts, call, context>>

(* The record of the iterations, by the node the simulation started at,    *)
(* after one more iteration is complete: their number and their rewards.   *)
iteration_complete(record, node, reward) ==
    IF node \in DOMAIN record
    THEN [record EXCEPT ![node] = [count |-> @.count + 1,
                                  rewards |-> @.rewards + reward]]
    ELSE record @@ (node :> [count |-> 1, rewards |-> reward])

(* search, line 111, and the step of the for loop.                         *)
Backpropagate ==
    /\ pc = "backprop"
    /\ nodes' = backpropagate(nodes, expanded_node, simulation_reward)
    /\ i' = i + 1
    /\ pc' = "select"
    /\ started' = iteration_complete(started, expanded_node,
                                     simulation_reward)
    /\ UNCHANGED <<config, initial_state, promising_node, expanded_node,
                   current_state, depth, simulation_reward, result,
                   transitions, rollouts, call, transition_rewards, twin,
                   graph>>

(* search, lines 113-124: the loop is over.                                *)
Finish ==
    /\ pc = "select"
    /\ i >= config.num_simulations
    /\ result' = best_action(nodes)
    /\ pc' = "done"
    /\ UNCHANGED <<nodes, config, initial_state, i, promising_node,
                   expanded_node, current_state, depth, simulation_reward,
                   transitions, rollouts, call, context>>

Next ==
    \/ SearchStart
    \/ Select
    \/ Expand
    \/ Simulate
    \/ RolloutStep
    \/ RolloutReturn
    \/ Backpropagate
    \/ Finish

Spec == Init /\ [][Next]_vars

----------------------------------------------------------------------------
(* The methods of MCTS called one by one on a tree, as the unit tests do:  *)
(* a root Node built from a state, then any sequence of _expand_node,      *)
(* _backpropagate and _select_promising_node calls on nodes of the tree.   *)

OpsStates == {"root", "terminal", "s0_start", "sym", "dup", "dead"}

InitOps ==
    /\ initial_state \in OpsStates
    /\ config = MCTSConfig(TestNumSimulations, Absent)
    /\ nodes = <<Node(initial_state, NoNode, None)>>
    /\ pc = "ops"
    /\ i = 0
    /\ promising_node = NoNode
    /\ expanded_node = NoNode
    /\ current_state = initial_state
    /\ depth = 0
    /\ simulation_reward = 0
    /\ result = None
    /\ transitions = 0
    /\ rollouts = 0
    /\ call = Idle
    /\ NoContext

ops_unchanged ==
    UNCHANGED <<config, initial_state, pc, i, promising_node, expanded_node,
                current_state, depth, simulation_reward, result, rollouts,
                context>>

(* self.mcts._expand_node(node)                                            *)
CallExpand(node) ==
    /\ pc = "ops"
    /\ call.seq < MaxCalls
    /\ LET e == expand_node(nodes, node)
       IN  /\ nodes' = e.nodes
           /\ transitions' = transitions + e.moved
           /\ call' = [op |-> "expand", node |-> node, reward |-> 0,
                       ret |-> e.ret, seq |-> call.seq + 1]
    /\ ops_unchanged

(* self.mcts._backpropagate(node, reward)                                  *)
CallBackpropagate(node, reward) ==
    /\ pc = "ops"
    /\ call.seq < MaxCalls
    /\ nodes' = backpropagate(nodes, node, reward)
    /\ call' = [op |-> "backpropagate", node |-> node, reward |-> reward,
                ret |-> NoNode, seq |-> call.seq + 1]
    /\ UNCHANGED transitions
    /\ ops_unchanged

(* self.mcts._select_promising_node(node)                                  *)
CallSelect(node) ==
    /\ pc = "ops"
    /\ call.seq < MaxCalls
    /\ call' = [op |-> "select", node |-> node, reward |-> 0,
                ret |-> select_promising_node(nodes, node, config),
                seq |-> call.seq + 1]
    /\ UNCHANGED <<nodes, transitions>>
    /\ ops_unchanged

NextOps ==
    \/ \E node \in NodeIds(nodes) : CallExpand(node)
    \/ \E node \in NodeIds(nodes), reward \in 0..MaxReward :
           CallBackpropagate(node, reward)
    \/ \E node \in NodeIds(nodes) : CallSelect(node)

SpecOps == InitOps /\ [][NextOps]_vars

----------------------------------------------------------------------------
(* The deterministic two-branch scenario of the unit tests: the test tree  *)
(* (terminal states behind one single-action state) and the same two       *)
(* branches ending directly, searched with the test configuration.         *)

TwoBranchStates == {"root", "direct"}

InitTwoBranch ==
    InitWith(TwoBranchStates, {MCTSConfig(TestNumSimulations, Absent)})

SpecTwoBranch == InitTwoBranch /\ [][Next]_vars

----------------------------------------------------------------------------
(* _simulate_random_playout called on its own, as the unit tests do: a     *)
(* Node built from a state, then one rollout from it.                      *)

RolloutStates == StateIds

InitRollout ==
    /\ initial_state \in RolloutStates
    /\ config \in {MCTSConfig(TestNumSimulations, d) :
                       d \in {Absent} \cup 1..MaxDepthAttr}
    /\ nodes = <<Node(initial_state, NoNode, None)>>
    /\ pc = "simulate"
    /\ i = 0
    /\ promising_node = NoNode
    /\ expanded_node = Root
    /\ current_state = initial_state
    /\ depth = 0
    /\ simulation_reward = 0
    /\ result = None
    /\ transitions = 0
    /\ rollouts = 0
    /\ call = Idle
    /\ NoContext

NextRollout ==
    \/ Simulate
    \/ RolloutStep
    \/ RolloutReturn

SpecRollout == InitRollout /\ [][NextRollout]_vars

----------------------------------------------------------------------------
(* search called twice on the same initial state with the same config.     *)
(* The first call records what random.choice returned (twin.tape), the     *)
(* second call is given the same draws; between the two calls the reward   *)
(* that get_next_state returns beside the state may change.  Nothing is    *)
(* cleared between the calls: the second call repeats the first one only   *)
(* if search builds its own tree and assigns every variable before it      *)
(* reads it.                                                               *)

TwinStates == {"s0_start", "sym", "game", "dup", "loop"}

InitTwin ==
    /\ initial_state \in TwinStates
    /\ config \in {MCTSConfig(n, MaxDepthAttr) : n \in 1..MaxTwinSimulations}
    /\ NotStarted
    /\ transition_rewards \in 0..MaxTransitionReward
    /\ twin = NoTwin
    /\ graph = NoGraph
    /\ started = NoneStarted

(* A pass of the rollout loop in the first call: the draw is recorded.     *)
RolloutRecord ==
    /\ twin.run = 1
    /\ \E k \in 1..Len(get_all_possible_actions(current_state)) :
           /\ RolloutDraw(k)
           /\ twin' = [twin EXCEPT !.tape = Append(@, k)]
    /\ UNCHANGED <<transition_rewards, graph, started>>

(* A pass of the rollout loop in the second call: random.choice returns    *)
(* what it returned at this point of the first call.                       *)
RolloutReplay ==
    /\ twin.run = 2
    /\ twin.pos <= Len(twin.tape)
    /\ RolloutDraw(twin.tape[twin.pos])
    /\ twin' = [twin EXCEPT !.pos = @ + 1]
    /\ UNCHANGED <<transition_rewards, graph, started>>

(* The first call is over: its tree and result are recorded, and search is *)
(* called again on the same MCTS object.  The variables of the new call    *)
(* are unassigned; here they hold what the first call left in them, its    *)
(* tree included, until the new call assigns them.  Only the counts of     *)
(* what the call under way has done start anew.                            *)
SearchAgain ==
    /\ pc = "done"
    /\ twin.run = 1
    /\ twin' = [run |-> 2, tape |-> twin.tape, pos |-> 1,
                first |-> [nodes |-> nodes, result |-> result,
                           transition_rewards |-> transition_rewards]]
    /\ transition_rewards' \in 0..MaxTransitionReward
    /\ pc' = "start"
    /\ transitions' = 0
    /\ rollouts' = 0
    /\ started' = NoneStarted
    /\ UNCHANGED <<nodes, config, initial_state, i, promising_node,
                   expanded_node, current_state, depth, simulation_reward,
                   result, call, graph>>

NextTwin ==
    \/ SearchStart
    \/ Select
    \/ Expand
    \/ Simulate
    \/ RolloutRecord
    \/ RolloutReplay
    \/ RolloutReturn
    \/ Backpropagate
    \/ Finish
    \/ SearchAgain

SpecTwin == InitTwin /\ [][NextTwin]_vars

----------------------------------------------------------------------------
(* The properties of Node read on their own, as the unit tests do: a node  *)
(* whose visit_count and total_reward were set, below a parent whose       *)
(* visit_count was set, under configs with every pair of values of         *)
(* exploration_constant and uct_C.                                         *)

ConstantValues == {DefaultUctC, TestUctC}

StatsConfigs ==
    {[MCTSConfig(TestNumSimulations, Absent)
          EXCEPT !.exploration_constant = e, !.uct_C = c] :
         e \in ConstantValues, c \in ConstantValues}

(* A parent and its child with the statistics given.                       *)
StatsTree(parent_visit_count, visit_count, total_reward) ==
    << [Node("sym", NoNode, None) EXCEPT !.children = <<2>>,
                                         !.visit_count = parent_visit_count],
       [Node("win", Root, "l") EXCEPT !.visit_count = visit_count,
                                      !.total_reward = total_reward] >>

InitStats ==
    /\ initial_state = "sym"
    /\ config \in StatsConfigs
    /\ \E p \in 0..MaxVisitCount, v \in 0..MaxVisitCount,
          t \in 0..MaxTotalReward :
           nodes = StatsTree(p, v, t)
    /\ pc = "stats"
    /\ i = 0
    /\ promising_node = NoNode
    /\ expanded_node = NoNode
    /\ current_state = initial_state
    /\ depth = 0
    /\ simulation_reward = 0
    /\ result = None
    /\ transitions = 0
    /\ rollouts = 0
    /\ call = Idle
    /\ NoContext

(* child_node.uct_value(parent_visit_count=current_node.visit_count)       *)
CallUctValue(node) ==
    /\ pc = "stats"
    /\ call.seq = 0
    /\ nodes[node].parent # NoNode
    /\ call' = [op |-> "uct_value", node |-> node, reward |-> 0,
                ret |-> uct_value(nodes[node],
                                  nodes[nodes[node].parent].visit_count,
                                  config),
                seq |-> call.seq + 1]
    /\ UNCHANGED <<nodes, transitions>>
    /\ ops_unchanged

(* node.average_reward                                                     *)
CallAverageReward(node) ==
    /\ pc = "stats"
    /\ call.seq = 0
    /\ call' = [op |-> "average_reward", node |-> node, reward |-> 0,
                ret |-> average_reward(nodes[node]), seq |-> call.seq + 1]
    /\ UNCHANGED <<nodes, transitions>>
    /\ ops_unchanged

NextStats ==
    \/ \E node \in NodeIds(nodes) : CallUctValue(node)
    \/ \E node \in NodeIds(nodes) : CallAverageReward(node)

SpecStats == InitStats /\ [][NextStats]_vars

----------------------------------------------------------------------------
(* mcts_node, the workflow step: it reads game_state, action_records and   *)
(* the mcts_config of the runnable config, runs one search and returns a   *)
(* dict with the next game_state and the extended action_records.          *)

AgentStates ==
    {"terminal", "direct", "sym", "game", "s0_start", "dead", "one_shot"}

PreviousActions == <<"prev_action1", "prev_action2">>

(* The values graph_state holds, or does not hold, under 'action_records'. *)
ActionRecordValues ==
    { [kind |-> "missing", items |-> <<>>],
      [kind |-> "None", items |-> <<>>],
      [kind |-> "list", items |-> <<>>],
      [kind |-> "list", items |-> PreviousActions] }

(* The fields of MCTSConfig.                                               *)
MCTSConfigFields == {"exploration_constant", "num_simulations", "uct_C"}

(* What runnable_config['configurable'] holds, or does not hold, under     *)
(* 'mcts_config': kind is "missing" without the key, "None" for None, and  *)
(* "dict" or "MCTSConfig" with keys the keys of the dict or the fields of  *)
(* the object; a key that is not in keys holds Absent.                     *)
ConfigValue(kind, keys, num_simulations, constant) ==
    [kind |-> kind, keys |-> keys,
     num_simulations |->
         IF "num_simulations" \in keys THEN num_simulations ELSE Absent,
     exploration_constant |->
         IF "exploration_constant" \in keys THEN constant ELSE Absent,
     uct_C |-> IF "uct_C" \in keys THEN constant ELSE Absent]

(* The mcts_config values of the tests (all three fields, as a dict and    *)
(* as an MCTSConfig, the two constants equal), a dict with                 *)
(* num_simulations alone, and the values mcts_node raises on: None, and a  *)
(* dict with a key MCTSConfig has no field for.                            *)
MctsConfigValues ==
    { ConfigValue(k, MCTSConfigFields, n, c) :
          k \in {"dict", "MCTSConfig"}, n \in 1..MaxAgentSimulations,
          c \in {TestUctC, AgentUctC} }
    \cup { ConfigValue("dict", {"num_simulations"}, n, Absent) :
               n \in 1..MaxAgentSimulations }
    \cup { ConfigValue("None", {}, Absent, Absent),
           ConfigValue("dict", {"num_simulations", "max_depth"}, 1, Absent) }

(* mcts_config values that leave num_simulations at its default: no key    *)
(* 'mcts_config', and the empty dict.                                      *)
DefaultConfigValues ==
    { ConfigValue("missing", {}, Absent, Absent),
      ConfigValue("dict", {}, Absent, Absent) }

(* The game states mcts_node is run on with num_simulations at its         *)
(* default: a terminal one and one without actions.                        *)
DefaultConfigStates == {"terminal", "dead"}

AgentInputs ==
    (AgentStates \X MctsConfigValues)
        \cup (DefaultConfigStates \X DefaultConfigValues)

InitAgent ==
    /\ \E input \in AgentInputs, r \in ActionRecordValues :
        LET s == input[1]
            c == input[2]
        IN /\ graph = [graph_state |-> [game_state |-> s,
                                        action_records |-> r,
                                        current_player_id |-> "player1"],
                       mcts_config |-> c,
                       action_records |-> <<>>,
                       returned |-> NoReturn]
           /\ initial_state = s
    /\ config = MCTSConfig(DefaultNumSimulations, Absent)
    /\ nodes = <<>>
    /\ pc = "mcts_node"
    /\ i = 0
    /\ promising_node = NoNode
    /\ expanded_node = NoNode
    /\ current_state = initial_state
    /\ depth = 0
    /\ simulation_reward = 0
    /\ result = None
    /\ transitions = 0
    /\ rollouts = 0
    /\ call = Idle
    /\ transition_rewards = 0
    /\ twin = NoTwin
    /\ started = NoneStarted

(* graph_state.get('action_records') or []                                 *)
records_or_empty(value) ==
    IF value.kind = "list" THEN value.items ELSE <<>>

(* runnable_config['configurable'].get('mcts_config', {})                  *)
mcts_config_or_empty(value) ==
    IF value.kind = "missing"
    THEN [kind |-> "dict", keys |-> {}, num_simulations |-> Absent,
          exploration_constant |-> Absent, uct_C |-> Absent]
    ELSE value

(* The MCTSConfig built from the keys of the dict, or the MCTSConfig       *)
(* object itself: a field the dict has no key for keeps its default.       *)
MCTSConfigOf(params) ==
    [exploration_constant |->
         IF "exploration_constant" \in params.keys
         THEN params.exploration_constant ELSE DefaultExplorationConstant,
     num_simulations |->
         IF "num_simulations" \in params.keys
         THEN params.num_simulations ELSE DefaultNumSimulations,
     uct_C |-> IF "uct_C" \in params.keys THEN params.uct_C ELSE DefaultUctC,
     max_simulation_depth |-> Absent]

(* mcts_node raises before it looks at game_state: mcts_config is neither  *)
(* a dict nor an MCTSConfig (ValueError), or it is a dict with a key       *)
(* MCTSConfig has no field for (TypeError).                                *)
mcts_config_raises(params) ==
    \/ params.kind \notin {"dict", "MCTSConfig"}
    \/ params.kind = "dict" /\ ~(params.keys \subseteq MCTSConfigFields)

(* mcts_node, lines 17-45: the mcts_config is checked and made an          *)
(* MCTSConfig; a terminal game_state is handed back with the records;      *)
(* otherwise an MCTS instance is built with the config and search is       *)
(* called on game_state.                                                   *)
mcts_node_enter ==
    /\ pc = "mcts_node"
    /\ LET game_state == graph.graph_state.game_state
           action_records ==
               records_or_empty(graph.graph_state.action_records)
           mcts_config_params == mcts_config_or_empty(graph.mcts_config)
       IN  IF mcts_config_raises(mcts_config_params)
           THEN /\ pc' = "failed"
                /\ UNCHANGED <<graph, config, initial_state, current_state>>
           ELSE IF is_terminated(game_state)
           THEN /\ graph' = [graph EXCEPT
                        !.action_records = action_records,
                        !.returned = [game_state |-> game_state,
                                      action_records |-> action_records]]
                /\ pc' = "returned"
                /\ UNCHANGED <<config, initial_state, current_state>>
           ELSE /\ graph' = [graph EXCEPT !.action_records = action_records]
                /\ config' = MCTSConfigOf(mcts_config_params)
                /\ initial_state' = game_state
                /\ current_state' = game_state
                /\ pc' = "start"
    /\ UNCHANGED <<nodes, i, promising_node, expanded_node, depth,
                   simulation_reward, result, transitions, rollouts, call,
                   transition_rewards, twin, started>>

(* game_state.get_next_state(action) raises: the state has no such method, *)
(* MockState knows no child for the action (ValueError), or the state is   *)
(* one whose actions apply once and the expansion of the root, whose state *)
(* is this very object, has applied the action.                            *)
get_next_state_raises(s, action) ==
    \/ ~hasattr(s, "get_next_state")
    \/ action \notin DOMAIN MockStates[s].children_map
    \/ /\ s \in OneShotStates
       /\ nodes # <<>>
       /\ nodes[Root].state = s
       /\ action \in tried_actions(nodes, Root)

(* mcts_node_return putting the new action in front of the records.        *)
mcts_node_return_in_front ==
    /\ pc = "done"
    /\ LET game_state == graph.graph_state.game_state
           action == result
           taken == /\ action # None
                    /\ ~get_next_state_raises(game_state, action)
           next_game_state ==
               IF taken THEN get_next_state(game_state, action)[1]
               ELSE game_state
           action_records ==
               IF taken THEN <<action>> \o graph.action_records
               ELSE graph.action_records
       IN  graph' = [graph EXCEPT
               !.action_records = action_records,
               !.graph_state.action_records.items =
                   IF graph.graph_state.action_records.items # <<>>
                   THEN action_records ELSE @,
               !.returned = [game_state |-> next_game_state,
                             action_records |-> action_records]]
    /\ transitions' =
           IF /\ result # None
              /\ ~get_next_state_raises(graph.graph_state.game_state, result)
           THEN transitions + 1 ELSE transitions
    /\ pc' = "returned"
    /\ UNCHANGED <<nodes, config, initial_state, i, promising_node,
                   expanded_node, current_state, depth, simulation_reward,
                   result, rollouts, call, transition_rewards, twin, started>>

(* mcts_node_return recording whatever search returned, None included.     *)
mcts_node_return_records_none ==
    /\ pc = "done"
    /\ LET game_state == graph.graph_state.game_state
           action == result
           taken == /\ action # None
                    /\ ~get_next_state_raises(game_state, action)
           next_game_state ==
               IF taken THEN get_next_state(game_state, action)[1]
               ELSE game_state
           action_records == Append(graph.action_records, action)
       IN  graph' = [graph EXCEPT
               !.action_records = action_records,
               !.graph_state.action_records.items =
                   IF graph.graph_state.action_records.items # <<>>
                   THEN action_records ELSE @,
               !.returned = [game_state |-> next_game_state,
                             action_records |-> action_records]]
    /\ transitions' =
           IF /\ result # None
              /\ ~get_next_state_raises(graph.graph_state.game_state, result)
           THEN transitions + 1 ELSE transitions
    /\ pc' = "returned"
    /\ UNCHANGED <<nodes, config, initial_state, i, promising_node,
                   expanded_node, current_state, depth, simulation_reward,
                   result, rollouts, call, transition_rewards, twin, started>>

(* mcts_node_return appending the action before get_next_state is called:  *)
(* an action that cannot be applied stays in the records.                  *)
mcts_node_return_append_first ==
    /\ pc = "done"
    /\ LET game_state == graph.graph_state.game_state
           action == result
           taken == /\ action # None
                    /\ ~get_next_state_raises(game_state, action)
           next_game_state ==
               IF taken THEN get_next_state(game_state, action)[1]
               ELSE game_state
           action_records ==
               IF action # None THEN Append(graph.action_records, action)
               ELSE graph.action_records
       IN  graph' = [graph EXCEPT
               !.action_records = action_records,
               !.graph_state.action_records.items =
                   IF graph.graph_state.action_records.items # <<>>
                   THEN action_records ELSE @,
               !.returned = [game_state |-> next_game_state,
                             action_records |-> action_records]]
    /\ transitions' =
           IF /\ result # None
              /\ ~get_next_state_raises(graph.graph_state.game_state, result)
           THEN transitions + 1 ELSE transitions
    /\ pc' = "returned"
    /\ UNCHANGED <<nodes, config, initial_state, i, promising_node,
                   expanded_node, current_state, depth, simulation_reward,
                   result, rollouts, call, transition_rewards, twin, started>>

(* mcts_node, lines 47-66: search has returned.  An action is applied to   *)
(* game_state (a get_next_state call that returns is one transition more)  *)
(* and appended to the records, unless get_next_state raises;              *)
(* the append changes the caller's list when the records are that list (a  *)
(* non-empty list under 'action_records').                                 *)
mcts_node_return ==
    /\ pc = "done"
    /\ LET game_state == graph.graph_state.game_state
           action == result
           taken == /\ action # None
                    /\ ~get_next_state_raises(game_state, action)
           next_game_state ==
               IF taken THEN get_next_state(game_state, action)[1]
               ELSE game_state
           action_records ==
               IF taken THEN Append(graph.action_records, action)
               ELSE graph.action_records
       IN  graph' = [graph EXCEPT
               !.action_records = action_records,
               !.graph_state.action_records.items =
                   IF graph.graph_state.action_records.items # <<>>
                   THEN action_records ELSE @,
               !.returned = [game_state |-> next_game_state,
                             action_records |-> action_records]]
    /\ transitions' =
           IF /\ result # None
              /\ ~get_next_state_raises(graph.graph_state.game_state, result)
           THEN transitions + 1 ELSE transitions
    /\ pc' = "returned"
    /\ UNCHANGED <<nodes, config, initial_state, i, promising_node,
                   expanded_node, current_state, depth, simulation_reward,
                   result, rollouts, call, transition_rewards, twin, started>>

NextAgent ==
    \/ mcts_node_enter
    \/ SearchStart
    \/ Select
    \/ Expand
    \/ Simulate
    \/ RolloutStep
    \/ RolloutReturn
    \/ Backpropagate
    \/ Finish
    \/ mcts_node_return

SpecAgent == InitAgent /\ [][NextAgent]_vars

----------------------------------------------------------------------------
(* search run to its end: the interpreter keeps executing the call, so a   *)
(* step that can be taken is taken.                                        *)

MaxFairSimulations == 4

FairStates ==
    {"terminal", "s0_start", "game", "dup", "dead", "loop", "trap_evaluate"}

InitFair ==
    InitWith(FairStates,
             {MCTSConfig(n, d) : n \in 1..MaxFairSimulations,
                                 d \in {Absent, MaxDepthAttr}})

SpecFair == InitFair /\ [][Next]_vars /\ WF_vars(Next)

----------------------------------------------------------------------------

(* Notions the properties below are stated with.                           *)

(* Number of parent links between a node and the root.                     *)
RECURSIVE DepthOf(_, _)
DepthOf(ns, n) == IF ns[n].parent = NoNode THEN 0 ELSE 1 + DepthOf(ns, ns[n].parent)

(* The nodes on the parent chain of n, n and the root included.            *)
RECURSIVE ChainOf(_, _)
ChainOf(ns, n) == IF n = NoNode THEN {} ELSE {n} \cup ChainOf(ns, ns[n].parent)

ChildActions(ns, n) ==
    [k \in 1..Len(ns[n].children) |-> ns[ns[n].children[k]].action_taken]

FullyExpanded(ns, n) ==
    Len(ns[n].children) >= Len(get_all_possible_actions(ns[n].state))


----------------------------------------------------------------------------
(* C1: search on an initial state that is already terminal returns None,   *)
(* creates no child node, makes no get_next_state call and starts no       *)
(* rollout, whatever num_simulations is; the root keeps the caller's       *)
(* state and the call is over as soon as the root is built.  (The initial  *)
(* state has the four operations of BaseState.)                            *)
C1_TerminalRootNoAction ==
    (pc # "start" /\ MissingOperations(initial_state) = {}
                  /\ is_terminated(initial_state)) =>
        /\ pc = "done"
        /\ result = None
        /\ Len(nodes) = 1
        /\ nodes[Root] = Node(initial_state, NoNode, None)
        /\ transitions = 0
        /\ rollouts = 0
        /\ i = 0

C1_Witness ==
    /\ pc = "done"
    /\ is_terminated(initial_state)
    /\ config.num_simulations = MaxSimulations
    /\ result = None

(* C2: in the two-branch scenario (go_A ends in a state worth 10, go_B in  *)
(* one worth 5, directly or behind one single-action state) search with    *)
(* num_simulations = 50 and uct_C = 1.414 returns go_A.                    *)
C2_TwoBranchReturnsA ==
    pc = "done" => result = "go_A"

C2_Witness ==
    /\ pc = "done"
    /\ initial_state = "root"
    /\ i = TestNumSimulations
    /\ result = "go_A"
    /\ nodes[nodes[Root].children[1]].visit_count >
           nodes[nodes[Root].children[2]].visit_count

(* C3: one _backpropagate(node, reward) call adds 1 to visit_count and     *)
(* reward to total_reward at each of the DepthOf(node) + 1 nodes on the    *)
(* parent chain from node up to the root, changes the statistics of no     *)
(* other node, and changes nothing else in the tree.                       *)
C3_BackpropagateChainOnly ==
    [][\A node \in NodeIds(nodes), reward \in 0..MaxReward :
           CallBackpropagate(node, reward) =>
               /\ Len(nodes') = Len(nodes)
               /\ Root \in ChainOf(nodes, node)
               /\ Cardinality(ChainOf(nodes, node)) = DepthOf(nodes, node) + 1
               /\ \A m \in NodeIds(nodes) :
                      /\ nodes'[m].visit_count = nodes[m].visit_count +
                             (IF m \in ChainOf(nodes, node) THEN 1 ELSE 0)
                      /\ nodes'[m].total_reward = nodes[m].total_reward +
                             (IF m \in ChainOf(nodes, node) THEN reward ELSE 0)
                      /\ nodes'[m].state = nodes[m].state
                      /\ nodes'[m].parent = nodes[m].parent
                      /\ nodes'[m].action_taken = nodes[m].action_taken
                      /\ nodes'[m].children = nodes[m].children]_vars

(* A backpropagation from a grandchild of the root, next to an untouched   *)
(* sibling branch.                                                         *)
C3_Witness ==
    /\ call.op = "backpropagate"
    /\ call.reward = MaxReward
    /\ DepthOf(nodes, call.node) = 2
    /\ nodes[Root].visit_count = 1
    /\ nodes[Root].total_reward = MaxReward
    /\ \E m \in NodeIds(nodes) :
           m \notin ChainOf(nodes, call.node) /\ nodes[m].visit_count = 0

(* What an _expand_node call does to the tree and returns.                 *)
ChildActionsDistinct ==
    \A n \in NodeIds(nodes) :
        \A j, k \in 1..Len(nodes[n].children) :
            j # k => ChildActions(nodes, n)[j] # ChildActions(nodes, n)[k]

ExpandAppends(node) ==
    /\ Len(nodes') = Len(nodes) + 1
    /\ nodes'[node].children = Append(nodes[node].children, Len(nodes'))
    /\ call'.ret = Len(nodes')
    /\ nodes'[Len(nodes')].parent = node
    /\ nodes'[Len(nodes')].action_taken \notin
           {ChildActions(nodes, node)[k] : k \in 1..Len(nodes[node].children)}

ExpandNoOp(node) ==
    /\ nodes' = nodes
    /\ call'.ret = node

(* C4 as stated: children of a node never share an action_taken, and on a  *)
(* non-terminal node whose state reports k legal actions an _expand_node   *)
(* call appends one child with a new action as long as the node has fewer  *)
(* than k children (the first k calls), and is a no-op returning the node  *)
(* itself once it has k children.                                          *)
C4_Original ==
    /\ []ChildActionsDistinct
    /\ [][\A node \in NodeIds(nodes) :
              (CallExpand(node) /\ ~node_is_terminated(nodes[node])) =>
                  LET k == Len(get_all_possible_actions(nodes[node].state))
                  IN  IF Len(nodes[node].children) < k
                      THEN ExpandAppends(node)
                      ELSE ExpandNoOp(node) /\ Len(nodes[node].children) = k]_vars

(* The legal actions of a state as a set.                                  *)
DistinctActions(s) ==
    {get_all_possible_actions(s)[k] : k \in 1..Len(get_all_possible_actions(s))}

(* C4, amended: children of a node never share an action_taken, and on a   *)
(* non-terminal node whose state reports k distinct legal actions (each    *)
(* counted once, however often the list names it) an _expand_node call     *)
(* appends one child with a new action as long as the node has fewer than  *)
(* k children, and is a no-op returning the node itself once it has k.     *)
C4_ExpandDistinctActions ==
    /\ []ChildActionsDistinct
    /\ [][\A node \in NodeIds(nodes) :
              (CallExpand(node) /\ ~node_is_terminated(nodes[node])) =>
                  LET k == Cardinality(DistinctActions(nodes[node].state))
                  IN  IF Len(nodes[node].children) < k
                      THEN ExpandAppends(node)
                      ELSE ExpandNoOp(node) /\ Len(nodes[node].children) = k]_vars

(* A third _expand_node call on the root of the test tree, which has two   *)
(* legal actions and two children, returned the root.                      *)
C4_Witness ==
    /\ call.op = "expand"
    /\ call.node = Root
    /\ call.ret = Root
    /\ initial_state = "root"
    /\ Len(nodes[Root].children) = 2
    /\ ChildActions(nodes, Root) = <<"go_A", "go_B">>

(* C5: when the loop is over and the root has children, search returns the *)
(* action_taken of the root child with the highest visit_count, the        *)
(* earliest-created one among several with that count.                     *)
C5_MostVisitedEarliest ==
    (pc = "done" /\ Len(nodes) >= 1 /\ Len(nodes[Root].children) > 0) =>
        \E k \in 1..Len(nodes[Root].children) :
            /\ result = ChildActions(nodes, Root)[k]
            /\ \A j \in 1..Len(nodes[Root].children) :
                   LET vj == nodes[nodes[Root].children[j]].visit_count
                       vk == nodes[nodes[Root].children[k]].visit_count
                   IN  vj <= vk /\ (j < k => vj < vk)

(* Two root children with equal visit counts; the first one's action is    *)
(* returned.                                                               *)
C5_Witness ==
    /\ pc = "done"
    /\ Len(nodes[Root].children) = 2
    /\ nodes[nodes[Root].children[1]].visit_count =
           nodes[nodes[Root].children[2]].visit_count
    /\ result = ChildActions(nodes, Root)[1]
    /\ ChildActions(nodes, Root)[1] # ChildActions(nodes, Root)[2]

(* The counters of the loop, and the steps search may take from each       *)
(* position.                                                               *)
IterationCount ==
    (pc \notin {"start", "failed"} /\ ~is_terminated(initial_state)) =>
        /\ nodes[Root].visit_count = i
        /\ i <= config.num_simulations
        /\ rollouts = i + (IF pc \in {"rollout", "backprop"} THEN 1 ELSE 0)
        /\ pc = "done" => i = config.num_simulations

PhaseOrder ==
    pc' # "failed" =>
    /\ pc = "start" => pc' \in {"select", "done"}
    /\ pc = "select" =>
           \/ pc' = "expand" /\ i < config.num_simulations /\ i' = i
                /\ nodes' = nodes
           \/ pc' = "done" /\ i = config.num_simulations /\ nodes' = nodes
    /\ pc = "expand" =>
           /\ pc' = "simulate"
           /\ node_is_terminated(nodes[promising_node]) =>
                  nodes' = nodes /\ expanded_node' = promising_node
           /\ expanded_node' \in {promising_node, Len(nodes) + 1}
           /\ i' = i
    /\ pc = "simulate" =>
           /\ pc' = "rollout"
           /\ current_state' = nodes[expanded_node].state
           /\ UNCHANGED <<nodes, expanded_node, i>>
    /\ pc = "rollout" =>
           /\ pc' \in {"rollout", "backprop"}
           /\ UNCHANGED <<nodes, expanded_node, i>>
           /\ pc' = "backprop" => simulation_reward' = evaluate(current_state)
    /\ pc = "backprop" =>
           /\ pc' = "select"
           /\ i' = i + 1
           /\ nodes'[expanded_node].visit_count =
                  nodes[expanded_node].visit_count + 1
           /\ nodes'[expanded_node].total_reward =
                  nodes[expanded_node].total_reward + simulation_reward
           /\ nodes'[Root].total_reward =
                  nodes[Root].total_reward + simulation_reward
    /\ pc = "done" => FALSE

(* C6: for a non-terminal initial state the loop runs num_simulations      *)
(* times, each pass going through selection, expansion (skipped for a      *)
(* terminal node), simulation from the node expansion produced and one     *)
(* backpropagation from that node: after every pass the root's visit_count *)
(* is the number of passes completed, every pass runs exactly one rollout, *)
(* and at the end both equal num_simulations.  (As long as no state        *)
(* object turns out to lack an operation, which ends the call with an      *)
(* error.)                                                                 *)
C6_IterationsAndPhases ==
    /\ []IterationCount
    /\ [][PhaseOrder]_vars

C6_Witness ==
    /\ pc = "done"
    /\ ~is_terminated(initial_state)
    /\ config.num_simulations = MaxSimulations
    /\ nodes[Root].visit_count = MaxSimulations
    /\ rollouts = MaxSimulations
    /\ Len(nodes) > 3

(* C7: the node selection returns, started at the root of any tree search  *)
(* builds, is terminal, or its state has no legal action, or it has fewer  *)
(* children than its state has legal actions.                              *)
C7_SelectionResult ==
    pc = "expand" =>
        \/ node_is_terminated(nodes[promising_node])
        \/ Len(get_all_possible_actions(nodes[promising_node].state)) = 0
        \/ ~FullyExpanded(nodes, promising_node)

(* Selection went down two levels, through a fully expanded root and a     *)
(* fully expanded child.                                                   *)
C7_Witness ==
    /\ pc = "expand"
    /\ DepthOf(nodes, promising_node) = 2
    /\ FullyExpanded(nodes, Root)
    /\ FullyExpanded(nodes, nodes[promising_node].parent)
    /\ Len(nodes[nodes[promising_node].parent].children) = 2

(* The nodes selection went through on its way from `from` to `to`, and    *)
(* the child of m it went into.                                            *)
SelectionPath(ns, from, to) == {m \in ChainOf(ns, to) : from \in ChainOf(ns, m)}

NextOnPath(ns, m, to) ==
    CHOOSE c \in ChainOf(ns, to) : ns[c].parent = m

(* Child number k of m has the highest uct_value among the children of m   *)
(* and every earlier child has a strictly lower one.                       *)
FirstBest(ns, m, k, cfg) ==
    LET score(j) == uct_value(ns[ns[m].children[j]], ns[m].visit_count, cfg)
    IN  \A j \in 1..Len(ns[m].children) :
            /\ ~greater[score(j), score(k)]
            /\ j < k => greater[score(k), score(j)]

Descends(ns, m, to, cfg) ==
    /\ ~node_is_terminated(ns[m])
    /\ FullyExpanded(ns, m)
    /\ \E k \in 1..Len(ns[m].children) :
           /\ ns[m].children[k] = NextOnPath(ns, m, to)
           /\ FirstBest(ns, m, k, cfg)

(* C8: at every non-terminal, fully expanded node selection passes, it     *)
(* goes into the child with the highest uct_value(current.visit_count),    *)
(* the earliest-created one among several with the highest score.          *)
C8_SelectionFollowsUct ==
    pc = "expand" =>
        \A m \in SelectionPath(nodes, Root, promising_node) \ {promising_node} :
            Descends(nodes, m, promising_node, config)

(* Selection passed a root whose two children score the same and went     *)
(* into the first.                                                         *)
C8_Witness ==
    /\ pc = "expand"
    /\ promising_node # Root
    /\ Len(nodes[Root].children) = 2
    /\ nodes[Root].children[1] \in ChainOf(nodes, promising_node)
    /\ uct_value(nodes[nodes[Root].children[1]], nodes[Root].visit_count, config)
         = uct_value(nodes[nodes[Root].children[2]], nodes[Root].visit_count, config)

(* Selection passed a root whose second child scores strictly higher than  *)
(* the first.                                                              *)
C8_WitnessStrict ==
    /\ pc = "expand"
    /\ promising_node # Root
    /\ Len(nodes[Root].children) = 2
    /\ nodes[Root].children[2] \in ChainOf(nodes, promising_node)
    /\ nodes[nodes[Root].children[1]].visit_count > 1

(* Scores of unvisited and of visited nodes.                               *)
UnvisitedScoresInfinity ==
    \A n \in NodeIds(nodes), p \in 0..MaxCalls :
        IF nodes[n].visit_count = 0
        THEN uct_value(nodes[n], p, config) = PosInf
        ELSE greater[PosInf, uct_value(nodes[n], p, config)]

(* C9: a node with visit_count = 0 has uct_value +infinity for every       *)
(* parent_visit_count, a visited node a finite one; so where selection     *)
(* passes a fully expanded node that has an unvisited child, it goes into  *)
(* an unvisited child, never into one with visit_count > 0.                *)
C9_UnvisitedPreferred ==
    /\ UnvisitedScoresInfinity
    /\ call.op = "select" =>
           \A m \in SelectionPath(nodes, call.node, call.ret) \ {call.ret} :
               (\E k \in 1..Len(nodes[m].children) :
                    nodes[nodes[m].children[k]].visit_count = 0)
               => nodes[NextOnPath(nodes, m, call.ret)].visit_count = 0

(* Selection at a root whose first child is visited and whose second is    *)
(* not went into the second.                                               *)
C9_Witness ==
    /\ call.op = "select"
    /\ call.node = Root
    /\ Len(nodes[Root].children) = 2
    /\ nodes[nodes[Root].children[1]].visit_count > 0
    /\ nodes[nodes[Root].children[1]].total_reward > 0
    /\ nodes[nodes[Root].children[2]].visit_count = 0
    /\ nodes[Root].children[2] \in ChainOf(nodes, call.ret)

(* The k-th distinct action of a state's legal-action list, in the order   *)
(* of first occurrence.                                                    *)
FirstOccurrences(s) ==
    {k \in 1..Len(get_all_possible_actions(s)) :
         \A j \in 1..(k - 1) :
             get_all_possible_actions(s)[j] # get_all_possible_actions(s)[k]}

NthDistinctAction(s, n) ==
    LET k == CHOOSE k \in FirstOccurrences(s) :
                 Cardinality({j \in FirstOccurrences(s) : j <= k}) = n
    IN  get_all_possible_actions(s)[k]

(* C10: expansion gives the new child the first action of the legal-action *)
(* list that no existing child has, so the children of every node carry    *)
(* the distinct legal actions of its state in list order: child number n   *)
(* has the n-th of them.                                                   *)
C10_ChildrenInActionOrder ==
    \A m \in NodeIds(nodes) :
        /\ Len(nodes[m].children) <= Cardinality(FirstOccurrences(nodes[m].state))
        /\ \A n \in 1..Len(nodes[m].children) :
               ChildActions(nodes, m)[n] = NthDistinctAction(nodes[m].state, n)

(* Both actions of the test root expanded, in list order, and one of the   *)
(* children expanded as well.                                              *)
C10_Witness ==
    /\ pc = "ops"
    /\ initial_state = "root"
    /\ ChildActions(nodes, Root) = <<"go_A", "go_B">>
    /\ call.op = "expand"
    /\ call.node = Root
    /\ call.ret = nodes[Root].children[2]

----------------------------------------------------------------------------
(* One step of a rollout: a transition out of current_state, or the return *)
(* of the rollout's value.                                                 *)
RolloutContract ==
    /\ (pc = "rollout" /\ pc' = "rollout") =>
           /\ transitions < max_simulation_depth(config)
           /\ ~is_terminated(current_state)
           /\ Len(get_all_possible_actions(current_state)) >= 1
           /\ \E k \in 1..Len(get_all_possible_actions(current_state)) :
                  current_state' = MockStates[current_state].children_map[
                                       get_all_possible_actions(current_state)[k]]
           /\ transitions' = transitions + 1
    /\ (pc = "rollout" /\ pc' = "backprop") =>
           /\ \/ transitions = max_simulation_depth(config)
              \/ is_terminated(current_state)
              \/ Len(get_all_possible_actions(current_state)) = 0
           /\ simulation_reward' = evaluate(current_state)
           /\ transitions' = transitions

(* C11: a rollout applies at most max_simulation_depth transitions (the    *)
(* attribute of the config, 100 when the config has none); it applies a    *)
(* transition only when the current state is not terminal and has a legal  *)
(* action, and then with an action of that state's own list; what it       *)
(* returns is evaluate() of the state it stopped in, be it by termination, *)
(* by lack of actions or by the depth cap.                                 *)
C11_RolloutContract ==
    /\ [](pc \in {"rollout", "backprop"} =>
              transitions <= max_simulation_depth(config))
    /\ [][RolloutContract]_vars

(* A rollout that the default cap of 100 stopped in a non-terminal state   *)
(* with legal actions, and that returned the value of that state.          *)
C11_Witness ==
    /\ pc = "backprop"
    /\ config.max_simulation_depth = Absent
    /\ transitions = DefaultMaxSimulationDepth
    /\ current_state = "loop"
    /\ simulation_reward = evaluate("loop")

----------------------------------------------------------------------------
(* A chain: from s on, every state has all operations and exactly one      *)
(* legal action, until a terminal state.                                   *)
RECURSIVE IsChainWithin(_, _)
IsChainWithin(s, fuel) ==
    /\ MissingOperations(s) = {}
    /\ \/ is_terminated(s)
       \/ /\ fuel > 0
          /\ Len(get_all_possible_actions(s)) = 1
          /\ IsChainWithin(
                 MockStates[s].children_map[get_all_possible_actions(s)[1]],
                 fuel - 1)

IsChain(s) == IsChainWithin(s, Cardinality(StateIds))

(* The terminal state a chain ends in, and the number of transitions to it.*)
RECURSIVE ChainEnd(_)
ChainEnd(s) ==
    IF is_terminated(s) THEN s
    ELSE ChainEnd(MockStates[s].children_map[get_all_possible_actions(s)[1]])

RECURSIVE ChainLength(_)
ChainLength(s) ==
    IF is_terminated(s) THEN 0
    ELSE 1 + ChainLength(
                 MockStates[s].children_map[get_all_possible_actions(s)[1]])

(* C12 as stated: a rollout from the head of a chain of any length returns *)
(* the value of the chain's terminal state.                                *)
C12_Original ==
    (pc = "backprop" /\ IsChain(initial_state)) =>
        simulation_reward = evaluate(ChainEnd(initial_state))

(* C12: for every chain of states with exactly one legal action at every   *)
(* step until a terminal state, and at most max_simulation_depth           *)
(* transitions long, a rollout started at its head ends in the terminal    *)
(* state and returns exactly that state's evaluate(), whatever the random  *)
(* source draws; a rollout started at a terminal state returns that        *)
(* state's evaluate() without a transition.  (A longer chain is cut off by *)
(* the depth cap.)                                                         *)
C12_ChainRollout ==
    (/\ pc = "backprop"
     /\ IsChain(initial_state)
     /\ ChainLength(initial_state) <= max_simulation_depth(config)) =>
        /\ current_state = ChainEnd(initial_state)
        /\ simulation_reward = evaluate(ChainEnd(initial_state))
        /\ transitions = ChainLength(initial_state)

(* The rollout over the whole chain of three transitions, whose head and   *)
(* inner states evaluate to 0 and whose end evaluates to 20.               *)
C12_Witness ==
    /\ pc = "backprop"
    /\ initial_state = "chain3"
    /\ ChainLength(initial_state) = 3
    /\ current_state = "s2_term"
    /\ simulation_reward = 20

----------------------------------------------------------------------------
(* The second of two search calls behaves as the first one did: it is      *)
(* never at a point where the first call made no draw or a draw that is    *)
(* not possible now, and it ends with the tree and the result of the       *)
(* first call, all draws used up.                                          *)
SecondCallRepeatsFirst ==
    /\ (pc = "rollout" /\ ~rollout_raises /\ ~rollout_over) =>
           /\ twin.pos <= Len(twin.tape)
           /\ twin.tape[twin.pos] \in
                  1..Len(get_all_possible_actions(current_state))
    /\ pc # "failed"
    /\ pc = "done" =>
           /\ nodes = twin.first.nodes
           /\ result = twin.first.result
           /\ twin.pos = Len(twin.tape) + 1

(* C13: two search calls with the same config, the same initial state      *)
(* (the same state space, transition rewards included) and the same        *)
(* sequence of random draws build the same tree, node for node and         *)
(* statistic for statistic, and return the same action: nothing but the    *)
(* config, the state and the draws decides the result, the tree and the    *)
(* values an earlier call left behind do not.                              *)
C13_Reproducible ==
    (twin.run = 2 /\ twin.first.transition_rewards = transition_rewards) =>
        SecondCallRepeatsFirst

(* Two finished calls on the same state space whose second draw chose the  *)
(* second action of a list, and which returned an action.                  *)
C13_Witness ==
    /\ twin.run = 2
    /\ pc = "done"
    /\ Len(twin.first.nodes) >= 3
    /\ i = config.num_simulations
    /\ twin.first.transition_rewards = transition_rewards
    /\ Len(twin.tape) >= 2
    /\ twin.tape[2] = 2
    /\ twin.pos = Len(twin.tape) + 1
    /\ result # None
    /\ nodes = twin.first.nodes

(* C14: the rewards get_next_state returns never reach the statistics:     *)
(* the reward an iteration backpropagates is exactly evaluate() of the     *)
(* state its rollout stopped in, and of two search calls with the same     *)
(* draws on state spaces that differ only in the transition rewards the    *)
(* second builds the same tree with the same statistics and returns the    *)
(* same action as the first.                                               *)
C14_TransitionRewardsUnused ==
    /\ pc = "backprop" => simulation_reward = evaluate(current_state)
    /\ (twin.run = 2 /\ twin.first.transition_rewards # transition_rewards) =>
           SecondCallRepeatsFirst

(* Two finished calls with different transition rewards, the second with   *)
(* non-zero ones, in which rollouts and expansions made transitions.       *)
C14_Witness ==
    /\ twin.run = 2
    /\ pc = "done"
    /\ twin.first.transition_rewards # transition_rewards
    /\ transition_rewards > 0
    /\ Len(twin.tape) >= 2
    /\ transitions > Len(twin.tape)
    /\ nodes = twin.first.nodes
    /\ nodes[Root].total_reward > 0
    /\ result = twin.first.result

----------------------------------------------------------------------------
(* An initial state that is not terminal but has no legal action.          *)
DeadEnd(s) ==
    /\ MissingOperations(s) = {}
    /\ ~is_terminated(s)
    /\ Len(get_all_possible_actions(s)) = 0

(* C15: on a non-terminal initial state with an empty legal-action list    *)
(* search raises no error, runs all num_simulations iterations (each one a *)
(* rollout from the root itself, without any transition) and returns None; *)
(* the root never gets a child.                                            *)
C15_DeadEndReturnsNone ==
    DeadEnd(initial_state) =>
        /\ pc # "failed"
        /\ Len(nodes) <= 1
        /\ transitions = 0
        /\ pc # "start" => Len(nodes[Root].children) = 0
        /\ pc = "done" =>
               /\ result = None
               /\ i = config.num_simulations
               /\ rollouts = config.num_simulations
               /\ nodes[Root].visit_count = config.num_simulations

(* A finished search of several iterations on such a state.                *)
C15_Witness ==
    /\ pc = "done"
    /\ DeadEnd(initial_state)
    /\ config.num_simulations > 1
    /\ i = config.num_simulations
    /\ nodes[Root].total_reward = i * evaluate(initial_state)
    /\ result = None

----------------------------------------------------------------------------
(* C16 as stated: whenever a state search consumes lacks an operation, the *)
(* call fails before any simulation runs: no rollout was started and no    *)
(* node statistic was updated when the error is raised.                    *)
C16_Original ==
    pc = "failed" =>
        /\ rollouts = 0
        /\ \A m \in NodeIds(nodes) : nodes[m].visit_count = 0

(* The step that raises the error is a use of a state object that lacks an *)
(* operation; a failed call takes no further step.                         *)
FailsAtUse ==
    /\ (pc # "failed" /\ pc' = "failed") =>
           \/ pc = "start" /\ MissingOperations(initial_state) # {}
           \/ pc = "rollout" /\ MissingOperations(current_state) # {}
           \/ /\ pc \in {"select", "expand"}
              /\ \E m \in NodeIds(nodes) : MissingOperations(nodes[m].state) # {}
    /\ pc = "failed" => UNCHANGED vars

(* C16: an initial state that lacks get_all_possible_actions,              *)
(* is_terminated, get_next_state or evaluate makes search fail before      *)
(* anything else happens: no node is built, no rollout started, no         *)
(* transition made.  A state produced by a transition that lacks an        *)
(* operation makes the call fail only when the missing operation is used,  *)
(* in the rollout of the iteration that produced it; the statistics of the *)
(* iterations completed before stay in the tree, and a state whose missing *)
(* operation is never used does not make the call fail.  A failure is      *)
(* final: the call does nothing after it.                                  *)
C16_ContractViolation ==
    /\ [](MissingOperations(initial_state) # {} =>
              /\ pc \in {"start", "failed"}
              /\ nodes = <<>>
              /\ rollouts = 0
              /\ transitions = 0
              /\ result = None)
    /\ []((pc = "failed" /\ MissingOperations(initial_state) = {}) =>
              /\ MissingOperations(current_state) # {}
              /\ rollouts = i + 1
              /\ nodes[Root].visit_count = i
              /\ result = None)
    /\ [](initial_state = "trap_unused" => pc # "failed")
    /\ [][FailsAtUse]_vars

(* A call that failed in its second iteration, in the rollout from the     *)
(* node just expanded, after the first iteration had updated the tree.     *)
C16_Witness ==
    /\ pc = "failed"
    /\ initial_state = "trap_evaluate"
    /\ current_state = "no_evaluate"
    /\ depth = 1
    /\ rollouts = 2
    /\ nodes[Root].visit_count = 1
    /\ nodes[Root].total_reward = evaluate("win")

----------------------------------------------------------------------------
(* math.sqrt(math.log(max(parent_visit_count, 1)) / visit_count)           *)
RootOfLogRatio(parent_visit_count, visit_count) ==
    sqrt_log_ratio(IF parent_visit_count >= 1 THEN parent_visit_count ELSE 1,
                   visit_count)

(* C17 as stated: for visit_count > 0 and parent_visit_count >= 0 it is    *)
(* average_reward + C_p * sqrt(ln(max(parent_visit_count, 1)) /            *)
(* visit_count) with C_p the exploration_constant of the config, so that   *)
(* the score follows the exploration_constant the config is given; with    *)
(* parent_visit_count = 0 the score is exactly average_reward.             *)
C17_UctFormula ==
    (call.op = "uct_value" /\ nodes[call.node].visit_count > 0) =>
        LET n == nodes[call.node]
            parent_visit_count == nodes[n.parent].visit_count
        IN  /\ call.ret =
                   sum[average_reward(n),
                       product[float_of_constant(config.exploration_constant),
                               RootOfLogRatio(parent_visit_count,
                                              n.visit_count)]]
            /\ parent_visit_count = 0 => call.ret = average_reward(n)

(* a <= b for two numbers of ten limbs.                                    *)
at_most(a, b) ==
    \/ \A k \in 1..10 : a[k] = b[k]
    \/ LET k == CHOOSE k \in 1..10 :
                    a[k] # b[k] /\ \A j \in (k + 1)..10 : a[j] = b[j]
       IN  a[k] < b[k]

(* C18: average_reward is exactly 0 when visit_count is 0, whatever        *)
(* total_reward is, and exactly total_reward / visit_count when            *)
(* visit_count > 0: the float read is a float nearest to the quotient.     *)
(* With M the mantissa and e the exponent of the float read, and           *)
(* T = total_reward * 2^(52 - e), that is                                  *)
(* (2 * M - 1) * visit_count <= 2 * T <= (2 * M + 1) * visit_count; a      *)
(* quotient that is an integer is read as that integer.                    *)
C18_AverageReward ==
    call.op = "average_reward" =>
        LET n == nodes[call.node]
            m == call.ret.mantissa
            reward == quotient[n.total_reward, 1]
            twice(c) ==
                carried[<< 2 * n.visit_count * m[5] + c,
                           2 * n.visit_count * m[4], 2 * n.visit_count * m[3],
                           2 * n.visit_count * m[2], 2 * n.visit_count * m[1],
                           0, 0, 0, 0, 0 >>, 0]
            target == widened[reward.mantissa,
                              reward.exponent - call.ret.exponent + 1]
        IN  /\ n.visit_count = 0 => call.ret = Zero
            /\ (n.visit_count > 0 /\ n.total_reward = 0) => call.ret = Zero
            /\ (n.visit_count > 0 /\ n.total_reward > 0) =>
                   /\ call.ret.sign = 1
                   /\ m[1] \in 256..511
                   /\ \A k \in 2..5 : m[k] \in 0..(Base - 1)
                   /\ call.ret.exponent <= reward.exponent
                   /\ at_most(twice(-n.visit_count), target)
                   /\ at_most(target, twice(n.visit_count))
                   /\ n.total_reward % n.visit_count = 0 =>
                          call.ret = quotient[n.total_reward \div n.visit_count, 1]

(* average_reward read on an unvisited node that holds reward, and on a    *)
(* visited one: 3 / 4 = 0.75.                                              *)
C18_Witness ==
    /\ call.op = "average_reward"
    /\ nodes[call.node].visit_count = 0
    /\ nodes[call.node].total_reward > 0
    /\ call.ret = Zero

C18_WitnessVisited ==
    /\ call.op = "average_reward"
    /\ nodes[call.node].visit_count = 4
    /\ nodes[call.node].total_reward = 3
    /\ call.ret = [sign |-> 1, exponent |-> -1, mantissa |-> <<384, 0, 0, 0, 0>>]

----------------------------------------------------------------------------
(* mcts_node returns in this step.                                         *)
Returns == pc # "returned" /\ pc' = "returned"

(* The invocation takes no action: game_state is terminal, or search came  *)
(* back with None.                                                         *)
NoActionTaken ==
    \/ pc = "mcts_node" /\ is_terminated(graph.graph_state.game_state)
    \/ pc = "done" /\ result = None

(* C19: when no action is taken (game_state terminal, or not terminal but  *)
(* search returns None) mcts_node returns the game_state it was given and  *)
(* the action_records it was given, same elements in the same order (an    *)
(* empty list for a missing or None entry); the caller's graph state is    *)
(* left as it was.                                                         *)
C19_NoActionFrame ==
    [][(Returns /\ NoActionTaken) =>
           /\ graph'.returned.game_state = graph.graph_state.game_state
           /\ graph'.returned.action_records =
                  records_or_empty(graph.graph_state.action_records)
           /\ graph'.graph_state = graph.graph_state]_vars

(* mcts_node returned after a search of several iterations found no        *)
(* action, with the two earlier records handed back.                       *)
C19_Witness ==
    /\ pc = "returned"
    /\ graph.graph_state.game_state = "dead"
    /\ rollouts > 1
    /\ result = None
    /\ graph.graph_state.action_records.items = PreviousActions
    /\ graph.returned = [game_state |-> "dead",
                         action_records |-> PreviousActions]

(* C20: when search returns an action a for a non-terminal game_state,     *)
(* mcts_node returns the state get_next_state(a) leads to as game_state    *)
(* and, as action_records, the records it was given (an empty list when    *)
(* the key is missing or None) with a appended at the end: the earlier     *)
(* entries keep their order and exactly one action is added.  The claim    *)
(* is about a get_next_state(a) that returns a next state; C25 is about    *)
(* the one that raises.                                                    *)
C20_ActionApplied ==
    [][(/\ Returns
        /\ pc = "done"
        /\ result # None
        /\ ~get_next_state_raises(graph.graph_state.game_state, result)) =>
           LET game_state == graph.graph_state.game_state
               before == records_or_empty(graph.graph_state.action_records)
               after == graph'.returned.action_records
           IN  /\ ~is_terminated(game_state)
               /\ graph'.returned.game_state =
                      MockStates[game_state].children_map[result]
               /\ Len(after) = Len(before) + 1
               /\ \A n \in 1..Len(before) : after[n] = before[n]
               /\ after[Len(after)] = result]_vars

(* mcts_node returned the better move of the two-branch state, recorded    *)
(* behind the two earlier records.                                         *)
C20_Witness ==
    /\ pc = "returned"
    /\ graph.graph_state.game_state = "direct"
    /\ result = "go_A"
    /\ graph.returned = [game_state |-> "A1",
                         action_records |-> Append(PreviousActions, "go_A")]

(* The same with no action_records key in the graph state.                 *)
C20_WitnessMissing ==
    /\ pc = "returned"
    /\ graph.graph_state.action_records.kind = "missing"
    /\ result # None
    /\ graph.returned.action_records = <<result>>

----------------------------------------------------------------------------
(* The other fields of the graph state.                                    *)

(* The fields of the input graph state besides game_state and              *)
(* action_records.                                                         *)
OtherFields == DOMAIN graph.graph_state \ {"game_state", "action_records"}

(* C21: the graph state mcts_node returns carries every field of the input *)
(* graph state other than game_state and action_records, current_player_id *)
(* for one, with its value unchanged, whether an action was taken, the     *)
(* state was terminal or no action was found.                              *)
C21_OtherFieldsCarried ==
    pc = "returned" =>
        \A field \in OtherFields :
            /\ field \in DOMAIN graph.returned
            /\ graph.returned[field] = graph.graph_state[field]

----------------------------------------------------------------------------
(* Selection's contract towards expansion.                                 *)

(* The Expand step of search appends exactly one child to promising_node:  *)
(* the new node is the last of the arena and of the children, its action   *)
(* is one no child had, it is what expansion returns, and nothing else     *)
(* changes.                                                                *)
ExpandAppendsOneChild ==
    /\ Len(nodes') = Len(nodes) + 1
    /\ \A n \in NodeIds(nodes) :
           nodes'[n] = IF n = promising_node
                       THEN [nodes[n] EXCEPT
                                !.children = Append(@, Len(nodes'))]
                       ELSE nodes[n]
    /\ nodes'[Len(nodes')].parent = promising_node
    /\ nodes'[Len(nodes')].action_taken
           \in DistinctActions(nodes[promising_node].state)
                   \ tried_actions(nodes, promising_node)
    /\ expanded_node' = Len(nodes')

(* Selection returned a non-terminal node whose state has a legal action,  *)
(* and the expansion that follows returns.                                 *)
ExpandsSelected ==
    /\ Expand
    /\ pc' # "failed"
    /\ ~node_is_terminated(nodes[promising_node])
    /\ Len(get_all_possible_actions(nodes[promising_node].state)) >= 1

(* C22 as stated: inside search, whenever selection returns a non-terminal *)
(* node whose state has at least one legal action, the expansion that      *)
(* follows finds an untried action and appends exactly one new child to    *)
(* that node, for every legal-action list the state may report.            *)
C22_Original ==
    [][ExpandsSelected => ExpandAppendsOneChild]_vars

(* Every state of the tree reports each of its legal actions once.         *)
TreeActionsDistinct ==
    \A n \in NodeIds(nodes) :
        Cardinality(DistinctActions(nodes[n].state))
            = Len(get_all_possible_actions(nodes[n].state))

(* C22, amended: inside search, whenever selection returns a non-terminal  *)
(* node whose state has at least one legal action, and the states of the   *)
(* tree report pairwise distinct legal actions, the expansion that follows *)
(* finds an untried action and appends exactly one new child to that node. *)
(* With an action named twice in the list, selection returns a node all of *)
(* whose distinct actions are tried and expansion returns it unchanged.    *)
C22_SelectionContract ==
    [][ExpandsSelected =>
           IF TreeActionsDistinct
           THEN ExpandAppendsOneChild
           ELSE \/ ExpandAppendsOneChild
                \/ /\ nodes' = nodes
                   /\ expanded_node' = promising_node
                   /\ DistinctActions(nodes[promising_node].state)
                          \subseteq tried_actions(nodes, promising_node)]_vars

(* Selection descended below the root to a node with an untried action,    *)
(* and expansion gave that node a child.                                   *)
C22_Witness ==
    /\ pc = "simulate"
    /\ promising_node # Root
    /\ expanded_node # promising_node
    /\ nodes[expanded_node].parent = promising_node
    /\ TreeActionsDistinct

(* Selection returned a node of a state naming one action twice, and       *)
(* expansion found all its actions tried.                                  *)
C22_WitnessGuard ==
    /\ pc = "simulate"
    /\ expanded_node = promising_node
    /\ ~node_is_terminated(nodes[promising_node])
    /\ Len(nodes[promising_node].children)
           < Len(get_all_possible_actions(nodes[promising_node].state))
    /\ Len(nodes[promising_node].children) >= 1

----------------------------------------------------------------------------
(* What each phase of search may change in the tree.                       *)

(* The statistics of a node of the tree differ after the step.             *)
StatisticsChange(n) ==
    \/ nodes'[n].visit_count # nodes[n].visit_count
    \/ nodes'[n].total_reward # nodes[n].total_reward

(* C23: during search, visit_count and total_reward of any node change     *)
(* only in the backpropagation phase; the children of any node change only *)
(* in the expansion phase and only by one node appended at the end;        *)
(* selection and simulation leave every field of every node unchanged; no  *)
(* node leaves the tree and a node's state, parent and action_taken never  *)
(* change after its creation.                                              *)
C23_PhaseFrame ==
    [][/\ Len(nodes') >= Len(nodes)
       /\ \A n \in NodeIds(nodes) :
              /\ nodes'[n].state = nodes[n].state
              /\ nodes'[n].parent = nodes[n].parent
              /\ nodes'[n].action_taken = nodes[n].action_taken
              /\ StatisticsChange(n) => pc = "backprop"
              /\ nodes'[n].children # nodes[n].children =>
                     /\ pc = "expand"
                     /\ Len(nodes') = Len(nodes) + 1
                     /\ nodes'[n].children
                            = Append(nodes[n].children, Len(nodes'))
       /\ pc \in {"select", "simulate", "rollout"} => nodes' = nodes]_vars

(* A later iteration is in its simulation phase: expansion has appended a  *)
(* second child behind the first, whose statistics the backpropagation of  *)
(* an earlier iteration has set.                                           *)
C23_Witness ==
    /\ pc = "rollout"
    /\ i >= 1
    /\ Len(nodes[promising_node].children) = 2
    /\ expanded_node = nodes[promising_node].children[2]
    /\ nodes[nodes[promising_node].children[1]].visit_count >= 1
    /\ nodes[expanded_node].visit_count = 0

----------------------------------------------------------------------------
(* The shape of the tree.                                                  *)

(* The places (node, position) of the children sequences that hold n.      *)
ChildPlaces(n) ==
    {<<m, k>> \in NodeIds(nodes) \X (1..Len(nodes)) :
         k <= Len(nodes[m].children) /\ nodes[m].children[k] = n}

(* The node reached from n by following parent k times; NoNode once the    *)
(* walk has left the tree.                                                 *)
RECURSIVE Ancestor(_, _)
Ancestor(n, k) ==
    IF k = 0 \/ n = NoNode THEN n ELSE Ancestor(nodes[n].parent, k - 1)

(* C24: in every state reached during search the tree is rooted and        *)
(* acyclic.  The root has no parent and no action_taken; every other node  *)
(* appears exactly once, in the children of exactly one node, which is the *)
(* node its parent refers to; its state is the result of applying its      *)
(* action_taken to its parent's state; and following parent from any node  *)
(* reaches the root in finitely many steps.                                *)
C24_RootedTree ==
    nodes # <<>> =>
        /\ nodes[Root].parent = NoNode
        /\ nodes[Root].action_taken = None
        /\ ChildPlaces(Root) = {}
        /\ \A n \in NodeIds(nodes) \ {Root} :
               /\ nodes[n].parent \in NodeIds(nodes)
               /\ Cardinality(ChildPlaces(n)) = 1
               /\ \A place \in ChildPlaces(n) : place[1] = nodes[n].parent
               /\ nodes[n].action_taken
                      \in DOMAIN MockStates[nodes[nodes[n].parent].state]
                                     .children_map
               /\ nodes[n].state
                      = get_next_state(nodes[nodes[n].parent].state,
                                       nodes[n].action_taken)[1]
        /\ \A n \in NodeIds(nodes) :
               \E k \in 0..(Len(nodes) - 1) : Ancestor(n, k) = Root

(* A tree three levels deep over a state graph with a cycle: the state of  *)
(* a grandchild of the root is the root's own state.                       *)
C24_Witness ==
    /\ Len(nodes) >= 3
    /\ \E n \in NodeIds(nodes) \ {Root} :
           /\ nodes[n].parent # Root
           /\ nodes[n].state = nodes[Root].state

----------------------------------------------------------------------------
(* An action that cannot be applied.                                       *)

(* C25: if applying the action search returned fails (get_next_state       *)
(* raises), mcts_node does not propagate the error: it returns with        *)
(* game_state equal to the input game_state and the failed action not      *)
(* appended to action_records, the caller's list included.                 *)
C25_FailedActionSwallowed ==
    [][(/\ mcts_node_return
        /\ result # None
        /\ get_next_state_raises(graph.graph_state.game_state, result))
       => /\ pc' = "returned"
          /\ graph'.returned.game_state = graph.graph_state.game_state
          /\ graph'.returned.action_records
                 = records_or_empty(graph.graph_state.action_records)
          /\ graph'.graph_state = graph.graph_state]_vars

(* mcts_node has returned for a state whose get_next_state raised on the   *)
(* action search had found, with records that held two actions before.     *)
C25_Witness ==
    /\ pc = "returned"
    /\ result # None
    /\ graph.graph_state.game_state \in OneShotStates
    /\ graph.returned.game_state = graph.graph_state.game_state
    /\ graph.returned.action_records = PreviousActions

----------------------------------------------------------------------------
(* The scores selection asks for.                                          *)

(* The uct_value calls of _select_promising_node started at node, as pairs *)
(* of the child scored and the parent_visit_count passed: every child of   *)
(* every fully expanded node of the descent.                               *)
RECURSIVE SelectionScores(_, _)
SelectionScores(ns, node) ==
    IF node_is_terminated(ns[node]) THEN {}
    ELSE LET possible_actions == get_all_possible_actions(ns[node].state)
         IN  IF \/ Len(possible_actions) = 0
                \/ Len(ns[node].children) < Len(possible_actions)
                \/ Len(ns[node].children) = 0
             THEN {}
             ELSE LET scored == {<<ns[node].children[k], ns[node].visit_count>> :
                                     k \in 1..Len(ns[node].children)}
                      best_child == best_uct_child(ns, node, config)
                  IN  IF best_child = NoNode THEN scored
                      ELSE scored \cup SelectionScores(ns, best_child)

(* C26: at every iteration boundary of search every non-root node has      *)
(* visit_count >= 1; so selection never scores a child with visit_count 0  *)
(* and always passes a parent_visit_count >= 1: search itself exercises    *)
(* neither the +infinity branch nor the logarithm clamp of uct_value.      *)
C26_VisitedBeforeScored ==
    pc = "select" =>
        /\ \A n \in NodeIds(nodes) \ {Root} : nodes[n].visit_count >= 1
        /\ \A score \in SelectionScores(nodes, Root) :
               /\ nodes[score[1]].visit_count >= 1
               /\ score[2] >= 1

(* An iteration begins with the root and one of its children fully         *)
(* expanded: selection scores children on two levels.                      *)
C26_Witness ==
    /\ pc = "select"
    /\ i < config.num_simulations
    /\ \E score \in SelectionScores(nodes, Root) :
           nodes[score[1]].parent # Root

----------------------------------------------------------------------------
(* Conservation of the statistics.                                         *)

(* The sums of visit_count and of total_reward over the first k children   *)
(* of node n.                                                              *)
RECURSIVE ChildrenVisits(_, _)
ChildrenVisits(n, k) ==
    IF k = 0 THEN 0
    ELSE ChildrenVisits(n, k - 1) + nodes[nodes[n].children[k]].visit_count

RECURSIVE ChildrenRewards(_, _)
ChildrenRewards(n, k) ==
    IF k = 0 THEN 0
    ELSE ChildrenRewards(n, k - 1) + nodes[nodes[n].children[k]].total_reward

(* The number and the rewards of the completed iterations whose simulation *)
(* started at node n.                                                      *)
StartedAt(n) ==
    IF n \in DOMAIN started THEN started[n]
    ELSE [count |-> 0, rewards |-> 0]

(* C27: at every iteration boundary of search, for every node n,           *)
(* n.visit_count is the sum of its children's visit_count plus the number  *)
(* of iterations whose simulation started at n itself, and n.total_reward  *)
(* is the sum of its children's total_reward plus the rewards of those     *)
(* iterations; for a root whose state has a non-empty list of pairwise     *)
(* distinct legal actions, root.visit_count is the sum of the root         *)
(* children's visit_count.                                                 *)
C27_Conservation ==
    pc = "select" =>
        /\ \A n \in NodeIds(nodes) :
               /\ nodes[n].visit_count
                      = ChildrenVisits(n, Len(nodes[n].children))
                            + StartedAt(n).count
               /\ nodes[n].total_reward
                      = ChildrenRewards(n, Len(nodes[n].children))
                            + StartedAt(n).rewards
        /\ (/\ get_all_possible_actions(nodes[Root].state) # <<>>
            /\ Cardinality(DistinctActions(nodes[Root].state))
                   = Len(get_all_possible_actions(nodes[Root].state)))
           => nodes[Root].visit_count
                  = ChildrenVisits(Root, Len(nodes[Root].children))

(* An iteration boundary where a node below the root has children with     *)
(* rewards of their own as well as the iteration that created it, under a  *)
(* root with two distinct legal actions.                                   *)
C27_Witness ==
    /\ pc = "select"
    /\ Len(get_all_possible_actions(nodes[Root].state)) = 2
    /\ Cardinality(DistinctActions(nodes[Root].state)) = 2
    /\ nodes[Root].visit_count >= 3
    /\ \E n \in NodeIds(nodes) \ {Root} :
           /\ StartedAt(n).count >= 1
           /\ ChildrenRewards(n, Len(nodes[n].children)) >= 1

----------------------------------------------------------------------------
(* Termination.                                                            *)

(* search has returned, or an operation of a state has raised.             *)
SearchOver == pc \in {"done", "failed"}

(* C28: every search call eventually reaches the finished state, provided  *)
(* each state operation returns (a call in which one raises ends there);   *)
(* the loop ends after num_simulations iterations, each rollout after at   *)
(* most max_simulation_depth transitions, and the tree holds at most       *)
(* 1 + num_simulations nodes.                                              *)
C28_Termination ==
    /\ <>SearchOver
    /\ [](i <= config.num_simulations)
    /\ [](depth <= max_simulation_depth(config))
    /\ [](Len(nodes) <= 1 + config.num_simulations)

(* search has returned after all its iterations over a state graph with a *)
(* cycle, each iteration having added a node.                              *)
C28_Witness ==
    /\ pc = "done"
    /\ initial_state = "loop"
    /\ i = config.num_simulations
    /\ i >= 3
    /\ Len(nodes) = 1 + config.num_simulations
    /\ transitions > Len(nodes)

====
